---- MODULE Spec2Model ----
(***************************************************************************)
(* State-machine model of OOPAO's Telescope (pupil, PSF synthesis, field   *)
(* propagation) and ExtendedSource (tiling, blending filters, flux).       *)
(*                                                                         *)
(* Conventions                                                             *)
(*  - Python lists and array axes are functions over 0..len-1, so that the *)
(*    indices are the ones the source uses.                                *)
(*  - Angular lengths (fov, patch_padding, subDir_margin, img_PS,          *)
(*    coordinates[0]) are integers in a common unit; a quotient such as    *)
(*    tileSize/img_PS is kept as an exact fraction num/den and rounded     *)
(*    with the rounding function the source applies to it.                 *)
(*  - An image is represented by its side length (all images are square);  *)
(*    blending-filter weights are exact numerators over (filt_width-1)^2.  *)
(*  - zeroPaddingFactor is counted in halves (zpfH = 2*zeroPaddingFactor)  *)
(*    so that fractional factors are covered.                              *)
(*  - A pupil is a row-major array of 0s and 1s; reflectivities are counted *)
(*    in halves; samplingTime and a flux are exact fractions.              *)
(***************************************************************************)
EXTENDS Integers, Sequences, FiniteSets, TLC

VARIABLES sun, tel, out

vars == <<sun, tel, out>>

(***************************************************************************)
(* Bounds of the model                                                     *)
(***************************************************************************)
MaxNSubDirs == 8

FovValues     == {6, 12, 18}
PaddingValues == {0, 4}
MarginValues  == {0, 1}
PlateScales   == {1, 2}
OptBands      == {"V", "R"}

(***************************************************************************)
(* numpy arithmetic on exact fractions num/den, den > 0                    *)
(***************************************************************************)
Abs(x) == IF x < 0 THEN -x ELSE x

Min(a, b) == IF a <= b THEN a ELSE b

Max(a, b) == IF a >= b THEN a ELSE b

\* np.floor / Python //
Floor(num, den) == num \div den

\* np.ceil
Ceil(num, den) == -((-num) \div den)

\* np.round: round half to even
Round(num, den) ==
    LET q == num \div den
        r == num - q * den
    IN  IF 2 * r < den THEN q
        ELSE IF 2 * r > den THEN q + 1
        ELSE IF q % 2 = 0 THEN q ELSE q + 1

\* length of the Python slice a[lo:hi] of an axis of length len
SliceLen(lo, hi, len) ==
    LET l == IF lo < 0 THEN Max(lo + len, 0) ELSE Min(lo, len)
        h == IF hi < 0 THEN Max(hi + len, 0) ELSE Min(hi, len)
    IN  Max(h - l, 0)

\* numpy broadcasting of a right-hand side of length rhs into a target of
\* length lhs (assignment or in-place add along one axis)
Broadcastable(lhs, rhs) == rhs = lhs \/ rhs = 1

(***************************************************************************)
(* ExtendedSource                                                          *)
(***************************************************************************)
\* photometry: wavelength in nm of the band
photometry(arg) == IF arg = "V" THEN 500 ELSE IF arg = "R" THEN 700 ELSE 1300

\* photometry: zero point of the band, the initial nPhoton.  The zero points
\* 3.31e12, 2.25e20 and 0.5e20 are scaled to 331, 225 and 50 photons.
zeroPoint(arg) == IF arg = "V" THEN 331 ELSE IF arg = "R" THEN 225 ELSE 50

\* subDir_size as the fraction <<num, den>>
subDirSize(fov, patch_padding, nSubDirs) ==
    IF nSubDirs > 1 THEN <<2 * (fov + patch_padding), nSubDirs + 1>>
                    ELSE <<fov + patch_padding, 1>>

\* width_subap_pad of load_sun_img: side of sun_padded
widthSubapPad(fov, patch_padding, subDir_margin, img_PS) ==
    Round(fov + patch_padding + subDir_margin, img_PS)

\* width_subap_nopad of load_sun_img: side of sun_nopad
widthSubapNopad(fov, img_PS) == Round(fov, img_PS)

\* side of the pre-allocated tile array subDir_imgs
subDirImgSide(fov, patch_padding, subDir_margin, img_PS, nSubDirs) ==
    LET ts == subDirSize(fov, patch_padding, nSubDirs)
    IN  Ceil(ts[1] + subDir_margin * ts[2], ts[2] * img_PS)

\* dirx_c as a numerator over 2*den(subDir_size)
dirC(fov, patch_padding, nSubDirs, dir) ==
    LET ts == subDirSize(fov, patch_padding, nSubDirs)
    IN  ts[1] + dir * ts[1] - (fov + patch_padding) * ts[2]

\* bounds of the slice cropped from sun_padded along one axis for tile index dir
cropLo(fov, patch_padding, subDir_margin, img_PS, nSubDirs, dir) ==
    LET ts  == subDirSize(fov, patch_padding, nSubDirs)
        den == 2 * ts[2] * img_PS
        sh  == widthSubapPad(fov, patch_padding, subDir_margin, img_PS) \div 2
    IN  Round(dirC(fov, patch_padding, nSubDirs, dir) + sh * den
              - (ts[1] + subDir_margin * ts[2]), den)

cropHi(fov, patch_padding, subDir_margin, img_PS, nSubDirs, dir) ==
    LET ts  == subDirSize(fov, patch_padding, nSubDirs)
        den == 2 * ts[2] * img_PS
        sh  == widthSubapPad(fov, patch_padding, subDir_margin, img_PS) \div 2
    IN  Round(dirC(fov, patch_padding, nSubDirs, dir) + sh * den
              + (ts[1] + subDir_margin * ts[2]), den)

\* length of the slice sun_padded[lo:hi] along one axis for tile index dir
cropLen(fov, patch_padding, subDir_margin, img_PS, nSubDirs, dir) ==
    SliceLen(cropLo(fov, patch_padding, subDir_margin, img_PS, nSubDirs, dir),
             cropHi(fov, patch_padding, subDir_margin, img_PS, nSubDirs, dir),
             widthSubapPad(fov, patch_padding, subDir_margin, img_PS))

\* get_subDirs raises when a cropped slice cannot be assigned to the tile array
getSubDirsRaises(fov, patch_padding, subDir_margin, img_PS, nSubDirs) ==
    \E dir \in 0..(nSubDirs - 1) :
        ~Broadcastable(subDirImgSide(fov, patch_padding, subDir_margin, img_PS, nSubDirs),
                       cropLen(fov, patch_padding, subDir_margin, img_PS, nSubDirs, dir))

\* cos and sin of the position angles the model uses (degrees)
cosDeg(theta) == IF theta = 0 THEN 1 ELSE IF theta = 180 THEN -1 ELSE 0

sinDeg(theta) == IF theta = 90 THEN 1 ELSE IF theta = 270 THEN -1 ELSE 0

\* a subDir_loc whose tiles along the first axis start one half tile too far
subDirLoc_off(coordinates, fov, patch_padding, nSubDirs) ==
    LET ts == subDirSize(fov, patch_padding, nSubDirs)
    IN  [d \in (0..(nSubDirs - 1)) \X (0..(nSubDirs - 1)) |->
            [x    |-> dirC(fov, patch_padding, nSubDirs, d[1] + 1)
                      + coordinates[1] * cosDeg(coordinates[2]) * 2 * ts[2],
             y    |-> dirC(fov, patch_padding, nSubDirs, d[2])
                      + coordinates[1] * sinDeg(coordinates[2]) * 2 * ts[2],
             den  |-> 2 * ts[2],
             size |-> ts]]

\* subDir_loc: per tile the Cartesian offsets from the telescope axis (numerators
\* x, y over den; radius = sqrt(x^2+y^2)/den, angle = atan2(y, x)) and the size
subDirLoc(coordinates, fov, patch_padding, nSubDirs) ==
    LET ts == subDirSize(fov, patch_padding, nSubDirs)
    IN  [d \in (0..(nSubDirs - 1)) \X (0..(nSubDirs - 1)) |->
            [x    |-> dirC(fov, patch_padding, nSubDirs, d[1])
                      + coordinates[1] * cosDeg(coordinates[2]) * 2 * ts[2],
             y    |-> dirC(fov, patch_padding, nSubDirs, d[2])
                      + coordinates[1] * sinDeg(coordinates[2]) * 2 * ts[2],
             den  |-> 2 * ts[2],
             size |-> ts]]

\* filt_width
filtWidth(fov, patch_padding, img_PS, nSubDirs) ==
    LET ts == subDirSize(fov, patch_padding, nSubDirs)
    IN  Round(ts[1], ts[2] * img_PS)

\* lin, as a numerator over (w - 1)
lin(w, i) == (w - 1) - Abs(2 * i - (w - 1))

\* filter_2D_template, as a numerator over (w - 1)^2
filterTemplate(w, i, j) == lin(w, i) * lin(w, j)

\* np.max(filter_2D_template)
templateMax(w) ==
    LET m == CHOOSE v \in {lin(w, i) : i \in 0..(w - 1)} :
                 \A u \in {lin(w, i) : i \in 0..(w - 1)} : u <= v
    IN  m * m

\* subDir_size//2 and the length of the slice [-subDir_size//2:]
halfLo(w) == w \div 2

halfHi(w) == SliceLen((-w) \div 2, w, w)

\* the edge-compensation updates and corner assignments of one tile raise
filterTileRaises(w, nSubDirs, dirX, dirY) ==
    \/ (dirX = 0 \/ dirY = 0) /\ ~Broadcastable(halfLo(w), IF (-w) \div 2 = 0 THEN w ELSE halfHi(w))
    \/ (dirX = nSubDirs - 1 \/ dirY = nSubDirs - 1)
          /\ ~Broadcastable(IF (-w) \div 2 = 0 THEN w ELSE halfHi(w), halfLo(w))
    \/ w = 0 /\ (dirX \in {0, nSubDirs - 1}) /\ (dirY \in {0, nSubDirs - 1})

\* the blending-filter loop raises at some tile
filterRaises(w, nSubDirs) ==
    \E dirX, dirY \in 0..(nSubDirs - 1) : filterTileRaises(w, nSubDirs, dirX, dirY)

\* weight (i, j) of the finished filter of tile (dirX, dirY)
filterTile(w, nSubDirs, dirX, dirY, i, j) ==
    LET h  == halfLo(w)
        s  == w - halfHi(w)
        top    == dirX = 0
        bottom == dirX = nSubDirs - 1
        left   == dirY = 0
        right  == dirY = nSubDirs - 1
    IN  IF \/ top /\ left /\ i < h /\ j < h
           \/ top /\ right /\ i < h /\ j >= s
           \/ bottom /\ left /\ i >= s /\ j < h
           \/ bottom /\ right /\ i >= s /\ j >= s
        THEN templateMax(w)
        ELSE filterTemplate(w, i, j)
             + (IF top /\ i < h THEN filterTemplate(w, i + s, j) ELSE 0)
             + (IF bottom /\ i >= s THEN filterTemplate(w, i - s, j) ELSE 0)
             + (IF left /\ j < h THEN filterTemplate(w, i, j + s) ELSE 0)
             + (IF right /\ j >= s THEN filterTemplate(w, i, j - s) ELSE 0)

\* self.filter_2D when the loop ran to its end
filter2D(w, nSubDirs) ==
    [d \in (0..(nSubDirs - 1)) \X (0..(nSubDirs - 1)) |->
        [p \in (0..(w - 1)) \X (0..(w - 1)) |->
            filterTile(w, nSubDirs, d[1], d[2], p[1], p[2])]]

\* self.filter_2D when the loop raised at its first tile: the template copied
\* into tile (0,0), zeros elsewhere
filter2DPartial(w, nSubDirs) ==
    [d \in (0..(nSubDirs - 1)) \X (0..(nSubDirs - 1)) |->
        [p \in (0..(w - 1)) \X (0..(w - 1)) |->
            IF d = <<0, 0>> THEN filterTemplate(w, p[1], p[2]) ELSE 0]]

\* a phase map: OPD map opd scaled by 2*pi/wl; row >= 0 when the source indexed
\* a single 2D map and so took one row of it
Phase(opd, wl, row) == [opd |-> opd, wl |-> wl, row |-> row]

NoPhase == Phase(-1, 0, -1)

\* a Source object as its constructor leaves it.  coordinates is the polar pair
\* <<r, theta>>, or <<x, y, den>> for radius sqrt(x^2+y^2)/den, angle atan2(y,x)
Source(optBand, coordinates) ==
    [tag |-> "source", optBand |-> optBand, wavelength |-> photometry(optBand),
     coordinates |-> coordinates, phase |-> NoPhase, phase_no_pupil |-> NoPhase]

\* fluxMap = []
NoFlux == [reflectivity |-> <<>>, num |-> 0, den |-> 1]

\* one sub-direction source: Source(optBand, magnitude=1, coordinates), then
\* subDirs_stars[-1].nPhoton = np.round(self.nPhoton/(self.nSubDirs*self.nSubDirs))
subDirStar(optBand, coordinates, nPhoton, nSubDirs) ==
    Source(optBand, coordinates)
    @@ [nPhoton |-> Round(nPhoton, nSubDirs * nSubDirs), fluxMap |-> NoFlux]

\* an Asterism object built from a list of sources
Asterism(list) ==
    [tag |-> "asterism", src |-> list, n_source |-> Cardinality(DOMAIN list)]

\* a gate that lets one more grid size through
tooManyDirections_off(nSubDirs) == nSubDirs > 8

\* the feasibility gate of the constructor
tooManyDirections(nSubDirs) == nSubDirs > 7

\* the attributes every constructor run sets before the gate
baseAttrs == {"is_initialized", "optBand", "wavelength", "nPhoton", "tag", "coordinates", "fov",
              "img_PS", "nSubDirs", "patch_padding", "subDir_margin",
              "sun_nopad", "sun_padded"}

\* the object at the gate: nothing of the tiling exists
ExtendedSourceAtGate(optBand, coordinates, fov, img_PS, nSubDirs, patch_padding, subDir_margin) ==
    [is_initialized      |-> FALSE,
     raised              |-> "none",
     attrs               |-> baseAttrs,
     tag                 |-> "sun",
     optBand             |-> optBand,
     wavelength          |-> photometry(optBand),
     nPhoton             |-> zeroPoint(optBand),
     coordinates         |-> coordinates,
     fov                 |-> fov,
     img_PS              |-> img_PS,
     nSubDirs            |-> nSubDirs,
     patch_padding       |-> patch_padding,
     subDir_margin       |-> subDir_margin,
     sun_nopad           |-> widthSubapNopad(fov, img_PS),
     sun_padded          |-> widthSubapPad(fov, patch_padding, subDir_margin, img_PS),
     subDirs_coordinates |-> <<>>,
     subDirs_sun         |-> 0,
     sun_subDir_ast      |-> Asterism(<<>>),
     filt_width          |-> 0,
     filter_2D           |-> <<>>]

\* ExtendedSource.__init__: the object when the constructor returns or raises
ExtendedSource(optBand, coordinates, fov, img_PS, nSubDirs, patch_padding, subDir_margin) ==
    LET o0 == ExtendedSourceAtGate(optBand, coordinates, fov, img_PS, nSubDirs,
                                   patch_padding, subDir_margin)
        w  == filtWidth(fov, patch_padding, img_PS, nSubDirs)
        loc == subDirLoc(coordinates, fov, patch_padding, nSubDirs)
        o1 == [o0 EXCEPT
                 !.attrs = @ \cup {"subDirs_coordinates", "subDirs_sun",
                                   "sun_subDir_ast", "filter_2D"},
                 !.subDirs_coordinates = loc,
                 !.subDirs_sun = subDirImgSide(fov, patch_padding, subDir_margin,
                                               img_PS, nSubDirs),
                 !.sun_subDir_ast =
                     Asterism([i \in 0..(nSubDirs * nSubDirs - 1) |->
                         LET c == loc[<<i \div nSubDirs, i % nSubDirs>>]
                         IN  subDirStar(optBand, <<c.x, c.y, c.den>>, o0.nPhoton,
                                        nSubDirs)]),
                 !.filt_width = w]
    IN  IF tooManyDirections(nSubDirs)
        THEN [o0 EXCEPT !.raised = "BaseException"]
        ELSE IF getSubDirsRaises(fov, patch_padding, subDir_margin, img_PS, nSubDirs)
        THEN [o0 EXCEPT !.raised = "ValueError"]
        ELSE IF filterRaises(w, nSubDirs)
        THEN [o1 EXCEPT !.raised = "ValueError",
                        !.filter_2D = filter2DPartial(w, nSubDirs)]
        ELSE [o1 EXCEPT !.is_initialized = TRUE,
                        !.filter_2D = filter2D(w, nSubDirs)]

\* the state before any extended source was constructed
NoSun == [ExtendedSourceAtGate("V", <<0, 0>>, 0, 1, 0, 0, 0) EXCEPT !.attrs = {}]

(***************************************************************************)
(* The mosaic of blending filters as computePSF lays it out                *)
(***************************************************************************)
\* global_corner_x of tile index dir
globalCorner(s, dir) ==
    LET ts == subDirSize(s.fov, s.patch_padding, s.nSubDirs)
    IN  Round(dir * ts[1], 2 * ts[2] * s.img_PS)

\* weight tile d contributes at canvas pixel (x, y)
weightAt(s, d, x, y) ==
    LET i == x - globalCorner(s, d[1])
        j == y - globalCorner(s, d[2])
    IN  IF i \in 0..(s.filt_width - 1) /\ j \in 0..(s.filt_width - 1)
        THEN s.filter_2D[d][<<i, j>>] ELSE 0

RECURSIVE sumWeights(_, _, _, _)
sumWeights(s, tiles, x, y) ==
    IF tiles = {} THEN 0
    ELSE LET d == CHOOSE t \in tiles : TRUE
         IN  weightAt(s, d, x, y) + sumWeights(s, tiles \ {d}, x, y)

\* sum of all tiles' filters at canvas pixel (x, y)
mosaicSum(s, x, y) == sumWeights(s, DOMAIN s.filter_2D, x, y)

\* one past the last pixel any tile covers along an axis
mosaicExtent(s) == globalCorner(s, s.nSubDirs - 1) + s.filt_width

\* pixels of the mosaic that are not on its outermost edge
mosaicInterior(s) == (1..(mosaicExtent(s) - 2)) \X (1..(mosaicExtent(s) - 2))

\* the tile side is an even whole number of pixels
evenTiles(s) ==
    LET ts == subDirSize(s.fov, s.patch_padding, s.nSubDirs)
    IN  ts[1] % (2 * ts[2] * s.img_PS) = 0

(***************************************************************************)
(* Telescope: data                                                         *)
(***************************************************************************)
\* tel.src = None
NoSrc == [tag |-> "None"]

\* an OPD value: one 2D map (kind "map", v[0] the map) or a Python list of maps
OPDMap(m) == [kind |-> "map", v |-> (0 :> m)]

OPDList(f) == [kind |-> "list", v |-> f]

\* a 3D array of maps: indexed like a list, but not of type list
OPDStack(f) == [kind |-> "stack", v |-> f]

\* len(list)
Len0(f) == Cardinality(DOMAIN f)

\* [val for i in range(n)]
Repeat(val, n) == [i \in 0..(n - 1) |-> val]

\* one irradiance map or focal-plane field: what it was computed from and its side
Image(amp, phase, side, norma) ==
    [amp |-> amp, phase |-> phase, side |-> side, norma |-> norma]

\* the image of an extended source: its side, and whether it was divided by
\* its sum
SunImage(side, norma) == [side |-> side, norma |-> norma]

\* the value of tel.PSF, tel.PSF_norma, tel.focal_EMF: not yet set, a single
\* array, a list of arrays, or the frame of a detector
Unset == [kind |-> "unset", v |-> <<>>]

Single(img) == [kind |-> "single", v |-> (0 :> img)]

ListOf(f) == [kind |-> "list", v |-> f]

Frame(img) == [kind |-> "frame", v |-> (0 :> img)]

\* tel.optical_path = None
NoPath == << <<"None", 0>> >>

\* what a call did: the operation, its arguments, the exception it raised
\* ("none" when it returned), the warnings it printed and locals of interest
Call(op, args, raised, printed, loc) ==
    [op |-> op, args |-> args, raised |-> raised, printed |-> printed, loc |-> loc]

NoCall == Call("init", <<>>, "none", 0, <<>>)

\* result of a handler: the telescope it leaves, the exception, the warnings
Result(t, raised, printed, loc) ==
    [tel |-> t, raised |-> raised, printed |-> printed, loc |-> loc]

\* img_resolution = None
None == -1

\* what a reflectivity of 1 is counted as: reflectivities are kept in halves
ReflUnit == 2

\* pupil = None
NoPupil == [kind |-> "None"]

\* a binary 2D array of side resolution, row-major: v[i * resolution + j]
Mask(f) == [kind |-> "mask", v |-> f]

\* a reflectivity given as one number or as a 2D map, in units of 1/ReflUnit
Scalar(r) == [kind |-> "scalar", s |-> r]

Map(f) == [kind |-> "map", v |-> f]

\* np.sum of a flattened array
RECURSIVE sumUpTo(_, _)
sumUpTo(f, k) == IF k < 0 THEN 0 ELSE f[k] + sumUpTo(f, k - 1)

npSum(f) == sumUpTo(f, Len0(f) - 1)

\* np.linspace(-a/2, a/2, resolution)[i], as a numerator over linDen(resolution)
linspace(a, resolution, i) ==
    IF resolution = 1 THEN -a ELSE 2 * i * a - a * (resolution - 1)

linDen(resolution) == IF resolution = 1 THEN 2 ELSE 2 * (resolution - 1)

\* circle = xx**2 + yy**2 of set_pupil, as a numerator over linDen(resolution)^2
circle(resolution, i, j) ==
    linspace(resolution, resolution, j) * linspace(resolution, resolution, j)
    + linspace(resolution, resolution, i) * linspace(resolution, resolution, i)

\* circle < (D/2)**2 with D = resolution + 1
insideDisc(resolution) ==
    [k \in 0..(resolution * resolution - 1) |->
        IF 4 * circle(resolution, k \div resolution, k % resolution)
             < (resolution + 1) * (resolution + 1) * linDen(resolution) * linDen(resolution)
        THEN 1 ELSE 0]

\* obs = circle >= (centralObstruction*D/2)**2, centralObstruction = coH/2
outsideObstruction(resolution, coH) ==
    [k \in 0..(resolution * resolution - 1) |->
        IF 16 * circle(resolution, k \div resolution, k % resolution)
             >= coH * coH * (resolution + 1) * (resolution + 1)
                * linDen(resolution) * linDen(resolution)
        THEN 1 ELSE 0]

\* elementwise product of two arrays of one shape
times(a, b) == [k \in DOMAIN a |-> a[k] * b[k]]

\* a reflectivity that is 1 on every pixel, also outside the mask
uniformReflectivity_off(pupil) == Map([k \in DOMAIN pupil |-> ReflUnit])

\* self.pupil.astype(float) as a reflectivity map
uniformReflectivity(pupil) == Map([k \in DOMAIN pupil |-> pupil[k] * ReflUnit])

\* the setter of tel.pupil
pupil_setter(t, val) ==
    [t EXCEPT !.pupil = val,
              !.pixelArea = npSum(val),
              !.pupilReflectivity = uniformReflectivity(val)]

\* self.pupil.astype(float)*self.pupilReflectivity
timesReflectivity(pupil, reflectivity) ==
    IF reflectivity.kind = "scalar"
    THEN Map([k \in DOMAIN pupil |-> pupil[k] * reflectivity.s])
    ELSE Map([k \in DOMAIN pupil |-> pupil[k] * reflectivity.v[k]])

\* the end of set_pupil, once self.pupil is assigned
set_pupil_finish(t) ==
    [t EXCEPT !.pupilReflectivity = timesReflectivity(t.pupil, t.pupilReflectivity),
              !.pixelArea = npSum(t.pupil)]

\* tel.set_pupil(); printed counts the warnings of the setter of tel.pupil
set_pupil(t) ==
    IF t.user_defined_pupil.kind = "None"
    THEN Result(set_pupil_finish(
                    pupil_setter(t, times(insideDisc(t.resolution),
                                          outsideObstruction(t.resolution,
                                                             t.centralObstruction)))),
                "none", IF t.isInitialized THEN 2 ELSE 0, <<>>)
    ELSE Result(set_pupil_finish(pupil_setter(t, t.user_defined_pupil.v)),
                "none", IF t.isInitialized THEN 1 ELSE 0, <<>>)

\* Telescope.__init__ with every argument (s: samplingTime, the fraction
\* <<num, den>> of a second; co: centralObstruction, counted in halves; p: pupil;
\* r: pupilReflectivity): the attributes set before set_pupil, then set_pupil
Telescope_init(resolution, diameter, s, co, fov, p, r) ==
    [set_pupil([tag                |-> "telescope",
                isInitialized      |-> FALSE,
                resolution         |-> resolution,
                D                  |-> diameter,
                centralObstruction |-> co,
                fov                |-> fov,
                samplingTime       |-> s,
                optical_path       |-> NoPath,
                user_defined_pupil |-> p,
                pupilReflectivity  |-> r,
                pupil              |-> <<>>,
                pixelArea          |-> 0,
                src                |-> NoSrc,
                OPD                |-> OPDMap(1),
                OPD_no_pupil       |-> OPDMap(1),
                PSF                |-> Unset,
                PSF_norma          |-> Unset,
                focal_EMF          |-> Unset,
                PSF_sun            |-> 0,
                PSF_sun_norma      |-> 0,
                warning_src        |-> FALSE]).tel
        EXCEPT !.isInitialized = TRUE]

\* Telescope(resolution, diameter, fov = fov): the other arguments at their defaults
Telescope(resolution, diameter, fov) ==
    Telescope_init(resolution, diameter, <<1, 1000>>, 0, fov, NoPupil, Scalar(ReflUnit))

(***************************************************************************)
(* Telescope.apply_spiders                                                 *)
(***************************************************************************)
\* map_dist > thickness_spider/2 at pixel (i, j) for one spider, offsets None;
\* the angles are multiples of 90 degrees
spiderKeeps(t, angle, thickness_spider, i, j) ==
    LET angle_val == (angle + 90) % 360
        half      == t.resolution \div 2
    IN  \/ angle_val < 90 /\ i < half
        \/ 90 <= angle_val /\ angle_val < 180 /\ j < half
        \/ 180 <= angle_val /\ angle_val < 270 /\ i >= half
        \/ 270 <= angle_val /\ j >= half
        \/ 2 * Abs(linspace(t.D, t.resolution, j) * cosDeg(angle_val)
                   - linspace(t.D, t.resolution, i) * sinDeg(angle_val))
             > thickness_spider * linDen(t.resolution)

\* the product of map_dist > thickness_spider/2 over the spiders
spiderMask(t, angle, thickness_spider) ==
    [k \in DOMAIN t.pupil |->
        IF \A n \in DOMAIN angle :
              spiderKeeps(t, angle[n], thickness_spider,
                          k \div t.resolution, k % t.resolution)
        THEN 1 ELSE 0]

\* apply_spiders after its call of set_pupil, for a positive thickness
apply_spiders_cut(t, angle, thickness_spider) ==
    Result(pupil_setter([t EXCEPT !.isInitialized = TRUE],
                        times(t.pupil, spiderMask(t, angle, thickness_spider))),
           "none", 1, <<>>)

\* tel.apply_spiders(angle, thickness_spider)
apply_spiders(t, angle, thickness_spider) ==
    IF thickness_spider > 0
    THEN apply_spiders_cut(set_pupil([t EXCEPT !.isInitialized = FALSE]).tel,
                           angle, thickness_spider)
    ELSE set_pupil([t EXCEPT !.isInitialized = FALSE])

(***************************************************************************)
(* Telescope.PropagateField                                                *)
(***************************************************************************)
\* a gate that also rejects the largest supported image
tooManyPixels_off(imgResH, zpfH, resolution) ==
    imgResH >= zpfH * resolution

\* the resolution gate: img_resolution > zeroPaddingFactor * resolution, with
\* img_resolution = imgResH/2 and zeroPaddingFactor = zpfH/2
tooManyPixels(imgResH, zpfH, resolution) ==
    imgResH > zpfH * resolution

\* img_resolution after the default was applied, in halves of a pixel
imgResolutionH(imgResH, zpfH, resolution) ==
    IF imgResH # None THEN imgResH ELSE zpfH * resolution

\* oversampling
oversamplingOf(zpfH) == IF zpfH * 1 < 4 THEN Ceil(4, zpfH) ELSE 1

\* img_size
imgSize(imgResH, oversampling) == Ceil(imgResH * oversampling, 2)

\* a pad_width rounded down instead of up
padWidth_off(zpfH, oversampling, resolution) ==
    Floor(((zpfH * oversampling * resolution) \div 2) - resolution, 2)

\* pad_width
padWidth(zpfH, oversampling, resolution) ==
    Ceil(((zpfH * oversampling * resolution) \div 2) - resolution, 2)

\* N after the padding
paddedN(zpfH, oversampling, resolution) ==
    resolution + 2 * padWidth(zpfH, oversampling, resolution)

\* shift_pix
shiftPix(N, img_size) ==
    IF N % 2 = img_size % 2 THEN 0 ELSE IF N % 2 = 0 THEN 1 ELSE -1

\* ids
cropIds(N, img_size) ==
    <<Ceil(N, 2) - (img_size \div 2) + (1 - (N % 2)) - 1,
      Ceil(N, 2) + (img_size \div 2) + shiftPix(N, img_size)>>

\* side of EMF[ids[0]:ids[1], ids[0]:ids[1]]
croppedSide(N, img_size) ==
    SliceLen(cropIds(N, img_size)[1], cropIds(N, img_size)[2], N)

\* tools.set_binning accepts the array
binningFits(side, oversampling) == side % oversampling = 0

\* side of set_binning(array, oversampling)
binnedSide(side, oversampling) == side \div oversampling

\* the end of PropagateField, from the crop of EMF on: focal_EMF, then PSF
PropagateField_store(t, amplitude, phase, oversampling, side, loc) ==
    IF oversampling # 1 /\ ~binningFits(side, oversampling)
    THEN Result([t EXCEPT !.focal_EMF = Single(Image(amplitude, phase, side, FALSE))],
                "ValueError:set_binning", 0, loc)
    ELSE Result([t EXCEPT !.focal_EMF = Single(Image(amplitude, phase, side, FALSE)),
                          !.PSF = Single(Image(amplitude, phase,
                                     IF oversampling # 1 THEN binnedSide(side, oversampling)
                                                         ELSE side, FALSE))],
                "none", 0, loc)

\* N before the padding: np.fix(zeroPaddingFactor * oversampling * resolution)
fixN(zpfH, oversampling, resolution) == (zpfH * oversampling * resolution) \div 2

\* the displacement of the pattern by the phasor, in quarters of a pixel:
\* (1 - img_resolution % 2)/2 of a pixel towards lower indices
phasorShift4(imgResH) == 2 - (imgResH % 4)

\* four times the index of EMF on which the centre of the pattern falls:
\* fftshift puts the zero frequency on index N // 2
centreEMF4(N, imgResH) == 4 * (N \div 2) - phasorShift4(imgResH)

\* the same centre in the binned PSF, as a numerator over 4 * oversampling:
\* bin b covers cropped pixels b*oversampling .. (b+1)*oversampling - 1
centrePSF(N, imgResH, img_size, oversampling) ==
    (centreEMF4(N, imgResH) - 4 * cropIds(N, img_size)[1]) + 2 - 2 * oversampling

\* locals of PropagateField
pfLocals(zpfH, imgResH, resolution, oversampling, img_size, N) ==
    [oversampling |-> oversampling,
     img_size     |-> img_size,
     fixN         |-> fixN(zpfH, oversampling, resolution),
     pad_before   |-> padWidth(zpfH, oversampling, resolution),
     pad_after    |-> padWidth(zpfH, oversampling, resolution),
     N            |-> N,
     ids          |-> cropIds(N, img_size),
     centre       |-> centrePSF(N, imgResH, img_size, oversampling)]

\* PropagateField once its locals are known
PropagateField_sized(t, amplitude, phase, zpfH, img_resolution, loc) ==
    IF img_resolution # None /\ tooManyPixels(img_resolution, zpfH, t.resolution)
    THEN Result(t, "ValueError:resolution", 0, loc)
    ELSE IF loc.pad_before < 0
    THEN Result(t, "ValueError:pad_width", 0, loc)
    ELSE PropagateField_store(t, amplitude, phase, loc.oversampling,
                              croppedSide(loc.N, loc.img_size), loc)

\* tel.PropagateField(amplitude, phase, zeroPaddingFactor, img_resolution), with
\* img_resolution in halves of a pixel, or None
PropagateField(t, amplitude, phase, zpfH, img_resolution) ==
    PropagateField_sized(t, amplitude, phase, zpfH, img_resolution,
        pfLocals(zpfH, imgResolutionH(img_resolution, zpfH, t.resolution), t.resolution,
            oversamplingOf(zpfH),
            imgSize(imgResolutionH(img_resolution, zpfH, t.resolution), oversamplingOf(zpfH)),
            paddedN(zpfH, oversamplingOf(zpfH), t.resolution)))

(***************************************************************************)
(* Telescope.OPD and Telescope.OPD_no_pupil setters                        *)
(***************************************************************************)
\* len(val) of an OPD value: the rows of one map, the maps of a list or stack
npLen(val, resolution) == IF val.kind = "map" THEN resolution ELSE Len0(val.v)

\* the list of sources with member i < k replaced by f[i]
updMembers(list, k, f) ==
    [i \in DOMAIN list |-> IF i < k THEN f[i] ELSE list[i]]

\* the list of sources after the loop "for i in range(n): list[i].phase =
\* val[i]*2*pi/wavelength" ran its first k iterations
phasesFrom(list, k, val, row) ==
    updMembers(list, k,
        [i \in DOMAIN list |->
            [list[i] EXCEPT !.phase =
                Phase(val.v[IF val.kind # "map" /\ i \in DOMAIN val.v THEN i ELSE 0],
                      list[i].wavelength, IF row THEN i ELSE -1)]])

phasesNoPupilFrom(list, k, val, row) ==
    updMembers(list, k,
        [i \in DOMAIN list |->
            [list[i] EXCEPT !.phase_no_pupil =
                Phase(val.v[IF val.kind # "map" /\ i \in DOMAIN val.v THEN i ELSE 0],
                      list[i].wavelength, IF row THEN i ELSE -1)]])

\* the asterism branch of the OPD setter accepts a list of this length
opdListFits(len, n_source) == len = n_source

\* tel.OPD = val
OPD_setter(t, val) ==
    LET t0 == [t EXCEPT !.OPD = val]
        s  == t.src
    IN  IF s.tag = "None" THEN Result(t0, "none", 0, <<>>)
        ELSE IF val.kind # "list"
        THEN IF s.tag = "source"
             THEN Result([t0 EXCEPT !.src.phase = Phase(val.v[0], s.wavelength, -1)],
                         "none", 0, <<>>)
             ELSE IF s.tag = "asterism"
             THEN \* phase from the whole map, then self.OPD[i] indexes row i
                  LET k == Min(s.n_source, npLen(val, t.resolution) + 1)
                  IN  Result([t0 EXCEPT !.src.src = phasesFrom(@, k, val, FALSE)],
                             IF s.n_source > npLen(val, t.resolution)
                             THEN "IndexError" ELSE "none",
                             0, <<>>)
             ELSE IF s.tag = "sun"
             THEN \* self._OPD[i] indexes row i of the map
                  LET k == Min(s.sun_subDir_ast.n_source, npLen(val, t.resolution))
                  IN  Result([t0 EXCEPT !.src.sun_subDir_ast.src =
                                            phasesFrom(@, k, val, val.kind = "map")],
                             IF s.sun_subDir_ast.n_source > npLen(val, t.resolution)
                             THEN "IndexError" ELSE "none",
                             0, <<>>)
             ELSE Result(t0, "TypeError", 0, <<>>)
        ELSE IF s.tag = "asterism"
             THEN IF opdListFits(Len0(val.v), s.n_source)
                  THEN Result([t0 EXCEPT !.src.src = phasesFrom(@, s.n_source, val, FALSE)],
                              "none", 0, <<>>)
                  ELSE Result(t0, "none", 0, <<>>)
             ELSE IF s.tag = "sun"
             THEN LET k == Min(s.sun_subDir_ast.n_source, Len0(val.v))
                  IN  Result([t0 EXCEPT !.src.sun_subDir_ast.src = phasesFrom(@, k, val, FALSE)],
                             IF Len0(val.v) < s.sun_subDir_ast.n_source
                             THEN "IndexError" ELSE "none",
                             0, <<>>)
             ELSE Result(t0, "TypeError", 0, <<>>)

\* the OPD_no_pupil setter accepts a list of this length
opdNoPupilListFits(len, n_source) == len = n_source

\* tel.OPD_no_pupil = val
OPD_no_pupil_setter(t, val) ==
    LET t0 == [t EXCEPT !.OPD_no_pupil = val]
        s  == t.src
    IN  IF s.tag = "None" THEN Result(t0, "none", 0, <<>>)
        ELSE IF val.kind # "list"
        THEN IF s.tag = "source"
             THEN Result([t0 EXCEPT !.src.phase_no_pupil = Phase(val.v[0], s.wavelength, -1)],
                         "none", 0, <<>>)
             ELSE IF s.tag = "asterism"
             THEN LET k == Min(s.n_source, npLen(val, t.resolution))
                  IN  Result([t0 EXCEPT !.src.src =
                                            phasesNoPupilFrom(@, k, val, val.kind = "map")],
                             IF s.n_source > npLen(val, t.resolution)
                             THEN "IndexError" ELSE "none",
                             0, <<>>)
             ELSE IF s.tag = "sun"
             THEN LET k == Min(s.sun_subDir_ast.n_source, npLen(val, t.resolution))
                  IN  Result([t0 EXCEPT !.src.sun_subDir_ast.src =
                                            phasesNoPupilFrom(@, k, val, val.kind = "map")],
                             IF s.sun_subDir_ast.n_source > npLen(val, t.resolution)
                             THEN "IndexError" ELSE "none",
                             0, <<>>)
             ELSE Result(t0, "TypeError", 0, <<>>)
        ELSE IF s.tag = "asterism"
             THEN IF opdNoPupilListFits(Len0(val.v), s.n_source)
                  THEN Result([t0 EXCEPT !.src.src =
                                            phasesNoPupilFrom(@, s.n_source, val, FALSE)],
                              "none", 0, <<>>)
                  ELSE Result(t0, "TypeError", 0, <<>>)
             ELSE IF s.tag = "sun"
             THEN IF opdNoPupilListFits(Len0(val.v), s.sun_subDir_ast.n_source)
                  THEN Result([t0 EXCEPT !.src.sun_subDir_ast.src =
                                   phasesNoPupilFrom(@, s.sun_subDir_ast.n_source, val, FALSE)],
                              "none", 0, <<>>)
                  ELSE Result(t0, "TypeError", 0, <<>>)
             ELSE Result(t0, "none", 0, <<>>)

(***************************************************************************)
(* Coupling a source to the telescope: src*tel                             *)
(***************************************************************************)
\* Source.__mul__: a point source takes one map; a list is flattened first
Source_mul(star, t) ==
    LET opd == IF t.OPD.kind # "map" THEN OPDMap(0) ELSE t.OPD
        onp == IF t.OPD.kind # "map" THEN OPDMap(0) ELSE t.OPD_no_pupil
    IN  [t EXCEPT !.OPD = opd,
                  !.OPD_no_pupil = onp,
                  !.optical_path = << <<"NGS", 2>>, <<"telescope", 0>> >>,
                  !.src = [star EXCEPT
                             !.phase = Phase(opd.v[0], star.wavelength, -1),
                             !.phase_no_pupil = Phase(onp.v[0], star.wavelength, -1)]]

\* Asterism.__mul__: one copy of the map per source
Asterism_mul(ast, t) ==
    LET m0  == IF t.OPD.kind # "map" THEN 0 ELSE t.OPD.v[0]
        m1  == IF t.OPD.kind # "map" THEN 0 ELSE t.OPD_no_pupil.v[0]
        opd == OPDList(Repeat(m0, ast.n_source))
        onp == OPDList(Repeat(m1, ast.n_source))
    IN  [t EXCEPT !.OPD = opd,
                  !.OPD_no_pupil = onp,
                  !.optical_path = << <<"asterism", 3>>, <<"telescope", 0>> >>,
                  !.src = [ast EXCEPT
                             !.src = phasesNoPupilFrom(phasesFrom(@, ast.n_source, opd, FALSE),
                                                       ast.n_source, onp, FALSE)]]

\* pupilReflectivity*(1/nSubDirs**2)*nPhoton*samplingTime*(D/resolution)**2:
\* the reflectivity map times the fraction num/den
fluxMap(pupilReflectivity, nSubDirs, nPhoton, samplingTime, D, resolution) ==
    [reflectivity |-> pupilReflectivity.v,
     num          |-> nPhoton * samplingTime[1] * D * D,
     den          |-> nSubDirs * nSubDirs * samplingTime[2] * resolution * resolution]

\* the sub-direction sources after the first k iterations set their fluxMap
fluxMapsFrom(list, k, t, nSubDirs) ==
    updMembers(list, k,
        [i \in DOMAIN list |->
            [list[i] EXCEPT !.fluxMap =
                fluxMap(t.pupilReflectivity, nSubDirs, list[i].nPhoton,
                        t.samplingTime, t.D, t.resolution)]])

\* the setter of src.nPhoton
nPhoton_setter(s, val) == [s EXCEPT !.nPhoton = val]

\* ExtendedSource.__mul__ with a telescope
ExtendedSource_mul(s, t) ==
    LET n2    == s.nSubDirs * s.nSubDirs
        isMap == t.OPD.kind = "map"
        r1    == IF isMap THEN OPD_setter(t, OPDList(Repeat(t.OPD.v[0], n2)))
                          ELSE Result(t, "none", 0, <<>>)
        \* copying a list OPD_no_pupil n2 times gives a list of lists
        nested == isMap /\ t.OPD_no_pupil.kind = "list"
        r2    == IF isMap /\ r1.raised = "none"
                 THEN OPD_no_pupil_setter(r1.tel, OPDList(Repeat(t.OPD_no_pupil.v[0], n2)))
                 ELSE r1
        t2    == IF isMap /\ r2.raised = "none"
                 THEN [r2.tel EXCEPT !.PSF_sun_norma = SunImage(s.sun_nopad, FALSE),
                                     !.PSF_sun = SunImage(s.sun_nopad, FALSE)]
                 ELSE r2.tel
        \* iterations of the loop that complete: OPD[i], then OPD_no_pupil[i]
        kOPD  == Min(n2, Len0(t2.OPD.v))
        kONP  == IF nested THEN 0
                 ELSE Min(n2, npLen(t2.OPD_no_pupil, t2.resolution))
        k     == Min(kOPD, kONP)
        subs  == fluxMapsFrom(
                     phasesNoPupilFrom(
                         phasesFrom(s.sun_subDir_ast.src, k, t2.OPD, FALSE),
                         k, t2.OPD_no_pupil, t2.OPD_no_pupil.kind = "map"),
                     k, t2, s.nSubDirs)
        path  == IF k = 0 THEN t2.optical_path
                 ELSE IF t2.optical_path = NoPath
                 THEN << <<"NGS", 1>>, <<"telescope", 0>> >>
                 ELSE [t2.optical_path EXCEPT ![1] = <<"SUN", 1>>]
        t3    == [t2 EXCEPT !.optical_path = path]
    IN  IF r2.raised # "none" THEN Result(r2.tel, r2.raised, 0, <<>>)
        ELSE IF k < n2
        THEN Result(t3, IF nested /\ kOPD > 0 THEN "TypeError" ELSE "IndexError", 0, <<>>)
        ELSE Result([t3 EXCEPT !.src = [s EXCEPT !.sun_subDir_ast.src = subs]],
                    "none", 0, <<>>)

(***************************************************************************)
(* Telescope.computePSF                                                    *)
(***************************************************************************)
\* a detector object, and detector = None
Detector(psf_samplingH, resolution) ==
    [tag |-> "detector", psf_sampling |-> psf_samplingH, resolution |-> resolution]

NoDetector == [tag |-> "None", psf_sampling |-> 0, resolution |-> None]

\* a check that only notices a member of shorter wavelength
wavelengthDiffers_off(input_wavelenght, wavelength) == input_wavelenght > wavelength

\* the members of one source set carry different wavelengths
wavelengthDiffers(input_wavelenght, wavelength) == input_wavelenght # wavelength

\* coordinates[0] > max(xPSF_arcsec) for a source with polar coordinates <<r, theta>>:
\* r > 206265 * (wavelength/D) * (img_resolution/2/zeroPaddingFactor),
\* wavelength in nm, img_resolution = imgResH/2, zeroPaddingFactor = zpfH/2
outsideDetector(coordinates, wavelength, D, zpfH, imgResH) ==
    coordinates[1] * D * 2 * zpfH * 10000000 > 206265 * (wavelength \div 100) * imgResH

\* farthest_corner > tel.fov for a sub-direction at <<x, y, den>> of a source of
\* field fovSun: sqrt(x^2+y^2)/den + sqrt(2*(fovSun/2)^2) > fovTel, squared twice
outsideTelescope(coordinates, fovSun, fovTel) ==
    LET A   == coordinates[1] * coordinates[1] + coordinates[2] * coordinates[2]
        den == coordinates[3]
        B   == fovSun * fovSun
        Cn  == 2 * den * den * fovTel * fovTel - 2 * A - den * den * B
    IN  Cn < 0 \/ 8 * A * B * den * den > Cn * Cn

\* a flag that follows the last source checked
warningAfter_off(warning_src, outside) == outside

\* the value of warning_src after the out-of-field check of one source
warningAfter(warning_src, outside) == warning_src \/ outside

\* list.append
Append0(f, x) == [i \in 0..Len0(f) |-> IF i < Len0(f) THEN f[i] ELSE x]

RECURSIVE psfLoop(_, _, _, _, _)

\* the end of iteration i_src, after PropagateField returned pf: the normalised
\* PSF and the two appends, then the next iteration
psfLoop_append(acc, input_source, i_src, zpfH, imgResH, print, pf) ==
    IF pf.raised # "none"
    THEN [acc EXCEPT !.tel = pf.tel, !.raised = pf.raised, !.printed = @ + print]
    ELSE psfLoop([tel |-> [pf.tel EXCEPT !.PSF_norma =
                              Single([pf.tel.PSF.v[0] EXCEPT !.norma = TRUE])],
                  raised |-> "none",
                  printed |-> acc.printed + print,
                  output_PSF |-> Append0(acc.output_PSF, pf.tel.PSF.v[0]),
                  output_PSF_norma |-> Append0(acc.output_PSF_norma,
                                               [pf.tel.PSF.v[0] EXCEPT !.norma = TRUE])],
                 input_source, i_src + 1, zpfH, imgResH)

\* iteration i_src from the out-of-field check on, for member m
psfLoop_propagate(acc, input_source, i_src, zpfH, imgResH, m, outside) ==
    psfLoop_append(acc, input_source, i_src, zpfH, imgResH,
        IF outside /\ ~acc.tel.warning_src THEN 1 ELSE 0,
        PropagateField([acc.tel EXCEPT !.warning_src = warningAfter(@, outside)],
                       i_src, m.phase, zpfH, imgResH))

\* iterations i_src, i_src+1, ... of the loop over input_source
psfLoop(acc, input_source, i_src, zpfH, imgResH) ==
    IF i_src >= Len0(input_source) \/ acc.raised # "none" THEN acc
    ELSE IF wavelengthDiffers(input_source[0].wavelength, input_source[i_src].wavelength)
    THEN [acc EXCEPT !.raised = "AttributeError:wavelength"]
    ELSE psfLoop_propagate(acc, input_source, i_src, zpfH, imgResH, input_source[i_src],
            IF acc.tel.src.tag = "sun"
            THEN outsideTelescope(input_source[i_src].coordinates, acc.tel.src.fov, acc.tel.fov)
            ELSE outsideDetector(input_source[i_src].coordinates,
                                 input_source[i_src].wavelength, acc.tel.D, zpfH, imgResH))

\* 2 ** ceil(log2(n))
RECURSIVE pow2ceil(_)
pow2ceil(n) == IF n <= 1 THEN 1 ELSE 2 * pow2ceil((n + 1) \div 2)

\* side of np.pad(array, pad_width = ((pad_img_size - side)/2).astype(int))
paddedSide(side, pad_img_size) == side + 2 * ((pad_img_size - side) \div 2)

\* torch broadcasting of an elementwise product along one axis
mulFits(a, b) == a = b \/ a = 1 \/ b = 1

\* locals of the compositor for an extended source s and its per-tile PSFs
sunLocals(s, output_PSF, output_PSF_norma) ==
    LET ts           == s.subDirs_coordinates[<<0, 0>>].size
        pad_img_size == pow2ceil(s.subDirs_sun + output_PSF[0].side)
        start_FFT    == Round(pad_img_size * ts[2] * s.img_PS - ts[1], 2 * ts[2] * s.img_PS)
    IN  [pad_img_size |-> pad_img_size,
         start_FFT    |-> start_FFT,
         end_FFT      |-> start_FFT + Round(ts[1], ts[2] * s.img_PS),
         canvas       |-> Round(s.fov + s.patch_padding, s.img_PS),
         Object_O     |-> paddedSide(s.subDirs_sun, pad_img_size),
         Coherence_H  |-> [i \in DOMAIN output_PSF_norma |->
                              paddedSide(output_PSF_norma[i].side, pad_img_size)]]

\* the body of the tile loop raises for tile (dirX, dirY)
sunTileRaises(s, loc, dirX, dirY) ==
    LET index   == dirX * s.nSubDirs + dirY
        H       == loc.Coherence_H[index]
        conv    == Max(loc.Object_O, H)
        crop    == SliceLen(loc.start_FFT, loc.end_FFT, conv)
        val     == Max(crop, s.filt_width)
        w       == loc.end_FFT - loc.start_FFT
        dstX    == SliceLen(globalCorner(s, dirX), globalCorner(s, dirX) + w, loc.canvas)
        dstY    == SliceLen(globalCorner(s, dirY), globalCorner(s, dirY) + w, loc.canvas)
    IN  \/ ~mulFits(loc.Object_O, H)
        \/ ~mulFits(crop, s.filt_width)
        \/ ~Broadcastable(dstX, val)
        \/ ~Broadcastable(dstY, val)

\* a layer index that two tiles share
tileIndex_off(nSubDirs, dirX, dirY) == dirX + dirY

\* index = dirX*nSubDirs + dirY
tileIndex(nSubDirs, dirX, dirY) == dirX * nSubDirs + dirY

\* what one iteration of the tile loop writes in its layer of sun_psf_tmp_3D:
\* at every pixel of the canvas, the blending weight of tile d times the
\* convolution of the tile with its PSF, which the model names by 1 + index
tileLayer(s, d, canvas) ==
    [px \in (0..(canvas - 1)) \X (0..(canvas - 1)) |->
        weightAt(s, d, px[1], px[2]) * (1 + d[1] * s.nSubDirs + d[2])]

\* sun_psf_tmp_3D after the iterations of the tile loop in the order ord
RECURSIVE tileLoop(_, _, _, _)
tileLoop(s, ord, canvas, sun_psf_tmp_3D) ==
    IF ord = <<>> THEN sun_psf_tmp_3D
    ELSE tileLoop(s, Tail(ord), canvas,
                  [sun_psf_tmp_3D EXCEPT ![tileIndex(s.nSubDirs, Head(ord)[1], Head(ord)[2])] =
                      tileLayer(s, Head(ord), canvas)])

\* torch.zeros((canvas, canvas, nSubDirs*nSubDirs))
zeroLayers(s, canvas) ==
    [index \in 0..(s.nSubDirs * s.nSubDirs - 1) |->
        [px \in (0..(canvas - 1)) \X (0..(canvas - 1)) |-> 0]]

\* torch.sum(sun_psf_tmp_3D, axis=2)
sun_PSF_combined(sun_psf_tmp_3D, canvas) ==
    [px \in (0..(canvas - 1)) \X (0..(canvas - 1)) |->
        npSum([index \in DOMAIN sun_psf_tmp_3D |-> sun_psf_tmp_3D[index][px]])]

\* the order of the loops "for dirX ... for dirY ..."
loopOrder(nSubDirs) ==
    [k \in 1..(nSubDirs * nSubDirs) |-> <<(k - 1) \div nSubDirs, (k - 1) % nSubDirs>>]

\* every order in which the tiles can be taken
tileOrders(nSubDirs) ==
    {[k \in 1..(nSubDirs * nSubDirs) |-> loopOrder(nSubDirs)[f[k]]] :
        f \in Permutations(1..(nSubDirs * nSubDirs))}

\* side of sun_PSF_combined_fov
sunFovSide(s, canvas) ==
    LET offset == Round(s.patch_padding, 2 * s.img_PS)
    IN  SliceLen(offset, Round(offset * s.img_PS + s.fov, s.img_PS), canvas)

\* an unwrapping that looks at the length alone
unwrapped_off(len, tag) == len = 1

\* the result is unwrapped to a single PSF
unwrapped(len, tag) == len = 1 /\ tag # "sun"

\* self.src.tag is evaluated while self.src is None
readsTagOfNone(s) == s.tag = "None"

\* the check "self.src is None"
srcIsNone(s) == s.tag = "None"

\* input_source of a coupled source object
memberList(s) ==
    IF s.tag = "asterism" THEN s.src
    ELSE IF s.tag = "sun" THEN s.sun_subDir_ast.src
    ELSE IF s.tag = "source" THEN (0 :> s)
    ELSE <<>>

\* the telescope after "make sure that the phase of the object matches the
\* OPD" ran as far as it gets: k of the n members took their phase
refreshPhases(t) ==
    IF t.src.tag = "sun"
    THEN [t EXCEPT !.src.sun_subDir_ast.src =
            updMembers(@, npLen(t.OPD, t.resolution),
                [i \in DOMAIN @ |-> [@[i] EXCEPT !.phase =
                    Phase(t.OPD.v[IF t.OPD.kind # "map" /\ i \in DOMAIN t.OPD.v
                                  THEN i ELSE 0],
                          t.src.wavelength, IF t.OPD.kind # "map" THEN -1 ELSE i)]])]
    ELSE IF t.src.tag = "asterism"
    THEN [t EXCEPT !.src.src =
            phasesFrom(@, npLen(t.OPD, t.resolution), t.OPD, t.OPD.kind = "map")]
    ELSE IF t.OPD.kind = "list" THEN t
    ELSE [t EXCEPT !.src.phase = Phase(t.OPD.v[0], t.src.wavelength, -1)]

\* the refresh of the phases raises: self.OPD[i] past the end of the list (or
\* of the rows of a single map), or a list multiplied by a float
refreshRaises(t) ==
    IF t.src.tag \in {"sun", "asterism"}
    THEN IF Len0(memberList(t.src)) >
              npLen(t.OPD, t.resolution)
         THEN "IndexError" ELSE "none"
    ELSE IF t.OPD.kind = "list" THEN "TypeError" ELSE "none"

\* the end of computePSF for an extended source: the compositor, then the
\* assignments of PSF_sun, PSF and PSF_norma
computePSF_sun(s, acc, output_PSF, output_PSF_norma, loc) ==
    IF \E dirX, dirY \in 0..(s.nSubDirs - 1) : sunTileRaises(s, loc, dirX, dirY)
    THEN Result(acc.tel, "RuntimeError", acc.printed, loc)
    ELSE Result([acc.tel EXCEPT !.PSF = output_PSF,
                                !.PSF_norma = output_PSF_norma,
                                !.PSF_sun = SunImage(sunFovSide(s, loc.canvas), FALSE),
                                !.PSF_sun_norma = SunImage(sunFovSide(s, loc.canvas), FALSE)],
                "none", acc.printed, loc)

\* computePSF after the unwrapping of output_PSF and output_PSF_norma
computePSF_store(s, acc, output_PSF, output_PSF_norma) ==
    IF s.tag = "sun"
    THEN computePSF_sun(s, acc, output_PSF, output_PSF_norma,
                        sunLocals(s, acc.output_PSF, acc.output_PSF_norma))
    ELSE Result([acc.tel EXCEPT !.PSF = output_PSF, !.PSF_norma = output_PSF_norma],
                "none", acc.printed, <<>>)

\* computePSF after the loop over input_source left acc
computePSF_unwrap(s, acc) ==
    IF acc.raised # "none" THEN Result(acc.tel, acc.raised, acc.printed, <<>>)
    ELSE IF unwrapped(Len0(acc.output_PSF), s.tag)
    THEN computePSF_store(s, acc, Single(acc.output_PSF[0]), Single(acc.output_PSF_norma[0]))
    ELSE computePSF_store(s, acc, ListOf(acc.output_PSF), ListOf(acc.output_PSF_norma))

\* computePSF once zeroPaddingFactor and img_resolution are settled; t1 is the
\* telescope after the refresh of the phases
computePSF_from(t, t1, zpfH, imgResH) ==
    IF readsTagOfNone(t.src) THEN Result(t, "AttributeError:NoneType", 0, <<>>)
    ELSE IF refreshRaises(t) # "none" THEN Result(t1, refreshRaises(t), 0, <<>>)
    ELSE IF srcIsNone(t.src) THEN Result(t1, "AttributeError:not coupled", 0, <<>>)
    ELSE computePSF_unwrap(t.src,
            psfLoop([tel |-> t1, raised |-> "none", printed |-> 0,
                     output_PSF |-> <<>>, output_PSF_norma |-> <<>>],
                    memberList(t1.src), 0, zpfH, imgResH))

\* img_resolution of the call, in halves of a pixel
requestedH(t, zpfH, img_resolution) ==
    IF img_resolution = None THEN zpfH * t.resolution ELSE 2 * img_resolution

\* tel.computePSF(zeroPaddingFactor, detector, img_resolution)
computePSF(t, zeroPaddingFactorH, detector, img_resolution) ==
    IF detector.tag # "None"
    THEN computePSF_from(t, IF readsTagOfNone(t.src) THEN t ELSE refreshPhases(t),
                         detector.psf_sampling,
                         requestedH(t, detector.psf_sampling, detector.resolution))
    ELSE computePSF_from(t, IF readsTagOfNone(t.src) THEN t ELSE refreshPhases(t),
                         zeroPaddingFactorH,
                         requestedH(t, zeroPaddingFactorH, img_resolution))

(***************************************************************************)
(* Inputs of the model                                                     *)
(***************************************************************************)
MaxSources    == 3
MaxOPDLen     == 3
MaxPath       == 4
MaxResolution == 4
MaxZpfH       == 5
MaxImgRes     == 6

\* point sources on and off the axis
Stars == {Source("V", <<r, 0>>) : r \in {0, 1}}

\* <<number of sources, index of the R-band source or -1, index of the off-axis
\* source or -1>>
AsterismShapes ==
    {nof \in (1..MaxSources) \X (-1..(MaxSources - 1)) \X {-1, 0} :
        nof[2] < nof[1] /\ (nof[3] = -1 \/ nof[2] = -1)}

\* asterisms of V-band sources, one of which may be in R band or off axis
Asterisms ==
    {Asterism([i \in 0..(nof[1] - 1) |->
                  Source(IF i = nof[2] THEN "R" ELSE "V", <<IF i = nof[3] THEN 1 ELSE 0, 0>>)]) :
        nof \in AsterismShapes}


\* extended sources whose construction succeeds
Suns ==
    {ExtendedSource("V", <<0, 0>>, 6, 1, 1, 0, 0),
     ExtendedSource("V", <<0, 0>>, 6, 1, 2, 0, 0),
     ExtendedSource("V", <<0, 0>>, 18, 2, 2, 0, 1)}

\* OPD values a caller assigns: a map, or a list of maps
OPDValues ==
    {OPDMap(2)}
    \cup {OPDList([i \in 0..(n - 1) |-> 2 + (i % 2)]) : n \in 1..MaxOPDLen}

\* <<2*zeroPaddingFactor, img_resolution>> of the computePSF calls
PSFInputs == {<<4, None>>, <<4, 3>>, <<2, 4>>}

Detectors == {Detector(4, 3)}

(***************************************************************************)
(* Telescope.__mul__ with a detector                                       *)
(***************************************************************************)
\* optical_path[-1] != obj.tag: a [tag, id] pair compared with a string
lastDiffers(last, tag) == TRUE

\* after computePSF returned r: obj.integrate, then self.PSF = obj.frame
integrated(r) ==
    IF r.raised # "none" THEN r
    ELSE [r EXCEPT !.tel.PSF = Frame(Image(-1, NoPhase, r.tel.PSF.v[0].side, FALSE))]

Telescope_mul_detector(t, obj) ==
    IF t.optical_path = NoPath THEN Result(t, "TypeError", 0, <<>>)
    ELSE integrated(
           computePSF([t EXCEPT !.optical_path =
                          IF lastDiffers(t.optical_path[Len(t.optical_path)], obj.tag)
                          THEN Append(t.optical_path, <<"detector", 4>>) ELSE @],
                      0, obj, None))

(***************************************************************************)
(* Telescope.__mul__ with a wavefront sensor or a deformable mirror        *)
(***************************************************************************)
\* a wavefront sensor: its tag, the telescope obj.telescope refers to ("own":
\* the one it was built with) and the OPD its last measurement saw
WFS(tag) == [tag |-> tag, telescope |-> "own", signal |-> Unset]

\* obj.telescope = ref; obj.wfs_measure()
wfs_measure(obj, ref, t) == [obj EXCEPT !.telescope = ref, !.signal = t.OPD]

\* a path that keeps the entry of the sensor
pathAfterWfs_off(path, tag) == Append(path, <<tag, 5>>)

\* optical_path.append([obj.tag, id(obj)]), then optical_path[:-1]
pathAfterWfs(path, tag) == SubSeq(Append(path, <<tag, 5>>), 1, Len(path))

\* tel*wfs; loc is the sensor as the call leaves it
Telescope_mul_wfs(t, obj) ==
    IF t.optical_path = NoPath THEN Result(t, "AttributeError", 0, obj)
    ELSE LET t1 == [t EXCEPT !.optical_path = pathAfterWfs(@, obj.tag)]
         IN  IF t.src.tag = "None" THEN Result(t1, "AttributeError", 0, obj)
             ELSE IF t.src.tag = "asterism"
             THEN Result(t1, "none", 0, wfs_measure(obj, "copy", t1))
             ELSE IF t.src.tag = "sun"
             THEN IF obj.tag = "pyramid" THEN Result(t1, "ValueError", 0, obj)
                  ELSE Result(t1, "none", 0, wfs_measure(obj, "copy", t1))
             ELSE Result(t1, "none", 0, wfs_measure(obj, "self", t1))

\* a deformable mirror without altitude: coefs is the signed number of the
\* mode it was commanded to (0: flat)
DM(coefs) == [tag |-> "deformableMirror", coefs |-> coefs]

\* dm_propagation of an unpaired telescope: the map of the mirror's shape
DMShape == 100

dm_propagation(obj) == DMShape + obj.coefs

\* the asterism and sun branches of tel*dm go on when len(self.OPD) is this
dmListFits(len, n_source) == len = n_source

\* tel*dm.  Map ids name a wavefront; the product with the pupil keeps the id
Telescope_mul_dm(t, obj) ==
    IF t.optical_path = NoPath THEN Result(t, "TypeError", 0, <<>>)
    ELSE LET t1 == [t EXCEPT !.optical_path =
                        IF @[Len(@)][2] # 6 THEN Append(@, <<obj.tag, 6>>) ELSE @]
             d  == dm_propagation(obj)
             s  == t.src
         IN  IF s.tag = "None" THEN Result(t1, "AttributeError", 0, <<>>)
             ELSE IF s.tag = "source"
             THEN Result(OPD_setter(OPD_no_pupil_setter(t1, OPDMap(d)).tel, OPDMap(d)).tel,
                         "none", 0, <<"source">>)
             ELSE IF s.tag = "asterism"
             THEN IF ~dmListFits(npLen(t.OPD, t.resolution), s.n_source)
                  THEN Result(t1, "TypeError", 0, <<"length">>)
                  ELSE IF t.OPD.kind = "map" \/ t.OPD_no_pupil.kind = "map"
                  THEN \* a 2D map does not fit in a row of a map
                       Result(t1, "ValueError", 0, <<"asterism">>)
                  ELSE IF Len0(t.OPD_no_pupil.v) < s.n_source
                  THEN Result(t1, "IndexError", 0, <<"asterism">>)
                  ELSE LET onp == [t.OPD_no_pupil EXCEPT !.v =
                                      [i \in DOMAIN @ |-> IF i < s.n_source THEN d ELSE @[i]]]
                           opd == [t.OPD EXCEPT !.v =
                                      [i \in DOMAIN @ |-> IF i < s.n_source THEN d ELSE @[i]]]
                           r1  == OPD_setter(t1, opd)
                           r2  == OPD_no_pupil_setter(r1.tel, onp)
                       IN  IF r2.raised # "none"
                           THEN Result(r2.tel, r2.raised, 0, <<"asterism">>)
                           \* the test of the sun follows with "if", and its
                           \* "else" raises
                           ELSE Result(r2.tel, "TypeError", 0, <<"asterism", "wrong object">>)
             ELSE IF s.tag = "sun"
             THEN IF ~dmListFits(npLen(t.OPD, t.resolution), s.sun_subDir_ast.n_source)
                  THEN Result(t1, "TypeError", 0, <<"length">>)
                  ELSE IF npLen(t.OPD_no_pupil, t.resolution)
                              <= Round(s.nSubDirs * s.nSubDirs, 2)
                  THEN Result(t1, "IndexError", 0, <<"sun">>)
                  ELSE LET val == OPDStack(Repeat(d, s.sun_subDir_ast.n_source))
                           r1  == OPD_no_pupil_setter(t1, val)
                           r2  == OPD_setter(r1.tel, val)
                       IN  Result(r2.tel, r2.raised, 0, <<"sun">>)
             ELSE Result(t1, "TypeError", 0, <<"wrong object">>)

(***************************************************************************)
(* Telescope.resetOPD                                                      *)
(***************************************************************************)
\* the maps resetOPD writes: pupil.astype(float) and 0*pupil.astype(float)
PupilOPD == 1

FlatOPD == 0

\* resetOPD; hasOptBand: the coupled source object has an attribute optBand.
\* loc lists the branches that ran
resetOPD(t, hasOptBand) ==
    LET s == t.src
    IN  IF s.tag = "None" THEN Result(t, "none", 0, <<>>)
        ELSE LET n  == IF s.tag = "sun" THEN s.sun_subDir_ast.n_source ELSE s.n_source
                 tl == [t EXCEPT !.optical_path =
                           << <<IF s.tag = "sun" THEN "SUN" ELSE "asterism",
                                IF s.tag = "sun" THEN 1 ELSE 3>>, <<"telescope", 0>> >>]
                 l1 == OPD_setter(tl, OPDList(Repeat(PupilOPD, n)))
                 l2 == OPD_no_pupil_setter(l1.tel, OPDList(Repeat(PupilOPD, n)))
                 \* the telescope when the test of the sun is reached
                 t1 == IF s.tag = "asterism" THEN l2.tel ELSE t
                 ts == [t1 EXCEPT !.optical_path = << <<"NGS", 2>>, <<"telescope", 0>> >>]
                 s1 == OPD_setter(ts, OPDMap(FlatOPD))
                 s2 == OPD_no_pupil_setter(s1.tel, OPDMap(FlatOPD))
             IN  IF s.tag = "sun" THEN Result(l2.tel, l2.raised, 0, <<"sun">>)
                 ELSE IF s.tag = "asterism" /\ l2.raised # "none"
                 THEN Result(l2.tel, l2.raised, 0, <<"asterism">>)
                 ELSE IF ~hasOptBand
                 THEN Result(t1, "AttributeError", 0,
                             IF s.tag = "asterism" THEN <<"asterism", "single">>
                             ELSE <<"single">>)
                 ELSE IF s1.raised # "none"
                 THEN Result(s1.tel, s1.raised, 0,
                             IF s.tag = "asterism" THEN <<"asterism", "single">>
                             ELSE <<"single">>)
                 ELSE Result(s2.tel, s2.raised, 0,
                             IF s.tag = "asterism" THEN <<"asterism", "single">>
                             ELSE <<"single">>)

(***************************************************************************)
(* ExtendedSource.__mul__ with any object                                  *)
(***************************************************************************)
\* sun*obj for an object that is no atmosphere; t is the telescope the model
\* holds, which is obj when obj.tag is 'telescope'
ExtendedSource_mul_obj(s, tag, t) ==
    IF tag = "telescope" THEN ExtendedSource_mul(s, t)
    ELSE Result(t, "AttributeError", 0, <<>>)

(***************************************************************************)
(* Specification of the telescope                                          *)
(***************************************************************************)
Init ==
    /\ sun = NoSun
    /\ tel = Telescope(3, 8, 10)
    /\ out = NoCall

\* src*tel for a point source
CoupleSource ==
    \E star \in Stars :
        /\ tel' = Source_mul(star, tel)
        /\ out' = Call("Source_mul", <<>>, "none", 0, <<>>)
        /\ UNCHANGED sun

\* ast*tel
CoupleAsterism ==
    \E ast \in Asterisms :
        /\ tel' = Asterism_mul(ast, tel)
        /\ out' = Call("Asterism_mul", <<>>, "none", 0, <<>>)
        /\ UNCHANGED sun

\* sun*tel
CoupleSun ==
    \E s \in Suns :
        LET r == ExtendedSource_mul(s, tel)
        IN  /\ tel' = r.tel
            /\ out' = Call("ExtendedSource_mul", <<s.nSubDirs>>, r.raised, 0, <<>>)
            /\ UNCHANGED sun

\* tel.OPD = val
SetOPD ==
    \E val \in OPDValues :
        LET r == OPD_setter(tel, val)
        IN  /\ tel' = r.tel
            /\ out' = Call("OPD", <<val>>, r.raised, 0, <<>>)
            /\ UNCHANGED sun

\* tel.OPD_no_pupil = val
SetOPD_no_pupil ==
    \E val \in OPDValues :
        LET r == OPD_no_pupil_setter(tel, val)
        IN  /\ tel' = r.tel
            /\ out' = Call("OPD_no_pupil", <<val>>, r.raised, 0, <<>>)
            /\ UNCHANGED sun

\* tel.computePSF(zeroPaddingFactor, img_resolution = ...)
ComputePSF ==
    \E in \in PSFInputs :
        LET r == computePSF(tel, in[1], NoDetector, in[2])
        IN  /\ tel' = r.tel
            /\ out' = Call("computePSF", in, r.raised, r.printed, r.loc)
            /\ UNCHANGED sun

\* tel*detector
MulDetector ==
    /\ Len(tel.optical_path) < MaxPath
    /\ \E obj \in Detectors :
        LET r == Telescope_mul_detector(tel, obj)
        IN  /\ tel' = r.tel
            /\ out' = Call("mul_detector", <<obj.psf_sampling, obj.resolution>>,
                           r.raised, r.printed, r.loc)
            /\ UNCHANGED sun

Next ==
    \/ CoupleSource
    \/ CoupleAsterism
    \/ CoupleSun
    \/ ComputePSF
    \/ MulDetector

Spec == Init /\ [][Next]_vars

(***************************************************************************)
(* Specification of the products tel*obj and of resetOPD                   *)
(***************************************************************************)
WFSTags == {"pyramid", "shackHartmann"}

OtherTags == {"detector", "deformableMirror"}

DMCoefs == {1}

\* the kinds of source of this specification
SourceKinds == {"source", "asterism", "sun"}

\* the source object of kind k: a star, an asterism of two stars, or an
\* extended source of one ("sun1") or of four ("sun") sub-directions
SourceOfKind(k) ==
    IF k = "source" THEN Source("V", <<0, 0>>)
    ELSE IF k = "asterism" THEN Asterism(Repeat(Source("V", <<0, 0>>), 2))
    ELSE ExtendedSource("V", <<0, 0>>, 6, 1, IF k = "sun1" THEN 1 ELSE 2, 0, 0)

\* ngs*tel
src_mul(ngs, t) ==
    IF ngs.tag = "source" THEN Result(Source_mul(ngs, t), "none", 0, <<>>)
    ELSE IF ngs.tag = "asterism" THEN Result(Asterism_mul(ngs, t), "none", 0, <<>>)
    ELSE ExtendedSource_mul_obj(ngs, "telescope", t)

\* src*tel for each kind of source
Couple ==
    \E k \in SourceKinds :
        LET r == src_mul(SourceOfKind(k), tel)
        IN  /\ tel' = r.tel
            /\ out' = Call("src_mul", <<k>>, r.raised, 0, <<>>)
            /\ UNCHANGED sun

\* sun*obj for an object that is neither a telescope nor an atmosphere
SunMulObject ==
    \E s \in Suns, tag \in OtherTags :
        LET r == ExtendedSource_mul_obj(s, tag, tel)
        IN  /\ tel' = r.tel
            /\ out' = Call("ExtendedSource_mul_obj", <<s.nSubDirs, tag>>, r.raised, 0, <<>>)
            /\ UNCHANGED sun

\* tel*wfs
MulWFS ==
    \E tag \in WFSTags :
        LET r == Telescope_mul_wfs(tel, WFS(tag))
        IN  /\ tel' = r.tel
            /\ out' = Call("mul_wfs", <<tag, tel.src.tag>>, r.raised, 0, r.loc)
            /\ UNCHANGED sun

\* tel*dm
MulDM ==
    /\ Len(tel.optical_path) < MaxPath
    /\ \E c \in DMCoefs :
        LET r == Telescope_mul_dm(tel, DM(c))
        IN  /\ tel' = r.tel
            /\ out' = Call("mul_dm", <<c, tel.src.tag>>, r.raised, 0, r.loc)
            /\ UNCHANGED sun

\* tel.resetOPD(); only a point source is known to have an optBand
ResetOPD ==
    \E hasOptBand \in BOOLEAN :
        /\ tel.src.tag = "source" => hasOptBand
        /\ tel.src.tag = "sun" => hasOptBand
        /\ LET r == resetOPD(tel, hasOptBand)
           IN  /\ tel' = r.tel
               /\ out' = Call("resetOPD", <<tel.src.tag>>, r.raised, 0, r.loc)
               /\ UNCHANGED sun

NextMul ==
    \/ Couple
    \/ SunMulObject
    \/ MulWFS
    \/ MulDM
    \/ MulDetector
    \/ ResetOPD

SpecMul == Init /\ [][NextMul]_vars

(***************************************************************************)
(* calibration.InteractionMatrix                                           *)
(***************************************************************************)
\* a column of intMat as np.zeros leaves it
ZeroColumn == [sp |-> 0, sm |-> 0, j |-> 0]

\* column j of (sp - sm)/(2*stroke), or of sp/stroke when sm is 0: the map
\* ids the sensor saw in the push and in the pull
Measurement(sp, sm, j) == [sp |-> sp, sm |-> sm, j |-> j]

\* the loop variable after "for i in range(nSubDirs**2)" of the sun branch
rebound(src, i) == IF src.tag = "sun" THEN src.nSubDirs * src.nSubDirs - 1 ELSE i

\* wfs.signal after tel*wfs returned r
sensed(r) ==
    Result(r.tel, r.raised, 0, IF r.raised = "none" THEN r.loc.signal.v[0] ELSE 0)

\* after tel*dm returned r: the phase offset 0 is added; tel*wfs
afterDM(r, wfsTag) ==
    IF r.raised # "none" THEN Result(r.tel, r.raised, 0, 0)
    ELSE sensed(Telescope_mul_wfs(r.tel, WFS(wfsTag)))

\* dm.coefs = coefs; tel*dm; tel*wfs.  loc is wfs.signal
pushPull(t, wfsTag, coefs) == afterDM(Telescope_mul_dm(t, DM(coefs)), wfsTag)

\* the element of a set of one element
Only(S) == CHOOSE x \in S : TRUE

\* nMeasurements after the test of the GPU pyramid, the default and the cap
measurementsOf(wfsTag, gpu_available, nModes, nMeasurements) ==
    LET n == IF wfsTag = "pyramid" /\ gpu_available THEN 1 ELSE nMeasurements
    IN  Min(IF n = None THEN nModes ELSE n, nModes)

\* passes of one iteration: the push, and the pull unless single_pass
passesOf(single_pass) == IF single_pass THEN 1 ELSE 2

RECURSIVE measureLoop(_, _, _, _, _, _, _)
\* pass p of the loop returned r, sp being the signal of the push: after the
\* last pass of iteration i the column named by the loop variable, which the
\* sun branch of the pull has rebound, takes the measurement
measure_pass(r, intMat, p, nMeasurements, wfsTag, single_pass, sp) ==
    IF r.raised # "none" THEN Result(r.tel, r.raised, 0, intMat)
    ELSE IF single_pass
    THEN measureLoop(r.tel, [intMat EXCEPT ![p] = Measurement(r.loc, 0, 0)],
                     p + 1, nMeasurements, wfsTag, single_pass, r.loc)
    ELSE IF p % 2 = 0
    THEN measureLoop(r.tel, intMat, p + 1, nMeasurements, wfsTag, single_pass, r.loc)
    ELSE IF rebound(r.tel.src, p \div 2) \notin DOMAIN intMat
    THEN Result(r.tel, "IndexError", 0, intMat)
    ELSE measureLoop(r.tel,
                     [intMat EXCEPT ![rebound(r.tel.src, p \div 2)] = Measurement(sp, r.loc, 0)],
                     p + 1, nMeasurements, wfsTag, single_pass, sp)

\* the loop "for i in range(nMeasurements)" from pass p on; mode i is commanded
\* as coefs i + 1 in the push and as -(i + 1) in the pull
measureLoop(t, intMat, p, nMeasurements, wfsTag, single_pass, sp) ==
    IF p >= nMeasurements * passesOf(single_pass) THEN Result(t, "none", 0, intMat)
    ELSE Only({measure_pass(r, intMat, p, nMeasurements, wfsTag, single_pass, sp) :
                  r \in {pushPull(t, wfsTag,
                                  IF single_pass THEN p + 1
                                  ELSE IF p % 2 = 0 THEN p \div 2 + 1
                                  ELSE -(p \div 2 + 1))}})

\* InteractionMatrix(ngs, atm, tel, dm, wfs, M2C, stroke, nMeasurements,
\* single_pass) for M2C of nModes columns, from the return c of "ngs*tel" on;
\* loc is intMat
InteractionMatrix(c, wfsTag, gpu_available, nModes, nMeasurements, single_pass) ==
    IF c.raised # "none" THEN Result(c.tel, c.raised, 0, <<>>)
    ELSE measureLoop(c.tel, [col \in 0..(nModes - 1) |-> ZeroColumn], 0,
                     measurementsOf(wfsTag, gpu_available, nModes, nMeasurements),
                     wfsTag, single_pass, 0)

(***************************************************************************)
(* calibration.InteractionMatrixFromPhaseScreen                            *)
(***************************************************************************)
\* the map id of sign*phasScreens[:, :, first:first+count]*stroke
BatchBase == 1000

BatchOPD(sign, first, count) == sign * (BatchBase + 10 * first + count)

\* a[:, lo:hi] of an array of n columns: <<first column, number of columns>>
colSlice(lo, hi, n) == <<Min(lo, n), Max(Min(hi, n) - Min(lo, n), 0)>>

\* modes_in of cycle i: <<first mode, number of modes>>
modesIn(i, c) ==
    IF c.nModes <= 1 THEN <<0, 1>>
    ELSE IF i = c.nCycle - 1 /\ c.nExtra # 0 THEN <<c.nModes - c.nExtra, c.nExtra>>
    ELSE colSlice(i * c.nMeasurements, (i + 1) * c.nMeasurements, c.nModes)

\* the columns the assignment to intMat names when the loop variable is i:
\* <<first column, number of columns, whether they are named by a slice>>
storeCols(i, c) ==
    IF c.nMeasurements = 1 THEN <<i, 1, FALSE>>
    ELSE IF i = c.nCycle - 1
    THEN IF c.nExtra = 1 THEN <<c.nModes - 1, 1, FALSE>>
         ELSE IF c.nExtra # 0 THEN <<c.nModes - c.nExtra, c.nExtra, TRUE>>
         ELSE <<c.nModes - c.nMeasurements, c.nMeasurements, TRUE>>
    ELSE colSlice(i * c.nMeasurements, (i + 1) * c.nMeasurements, c.nModes) \o <<TRUE>>

\* the assignment of count columns of measurements to cols raises: a column
\* past the end, or a block of another width
storeRaises(cols, count, nModes) ==
    IF cols[3] THEN IF count > 1 /\ cols[2] = count THEN "none" ELSE "ValueError"
    ELSE IF cols[1] >= nModes THEN "IndexError"
    ELSE IF count > 1 THEN "ValueError" ELSE "none"

\* after tel.OPD = opd returned r: the phase offset 0 is added to
\* tel.src.phase (hasPhase: an asterism has that attribute); tel*wfs
afterOPD(r, wfsTag, hasPhase) ==
    IF r.raised # "none" THEN Result(r.tel, r.raised, 0, 0)
    ELSE IF r.tel.src.tag = "asterism" /\ ~hasPhase
    THEN Result(r.tel, "AttributeError", 0, 0)
    ELSE sensed(Telescope_mul_wfs(r.tel, WFS(wfsTag)))

\* tel.OPD = opd; tel*wfs.  loc is wfs.signal
screenPass(t, wfsTag, opd, hasPhase) ==
    afterOPD(OPD_setter(t, OPDMap(opd)), wfsTag, hasPhase)

RECURSIVE screenLoop(_, _, _, _, _, _, _)
\* cycle i after its pull returned r, sp being the signal of the push, mi the
\* modes of the cycle and cols the columns the loop variable names
screen_store(r, intMat, p, c, wfsTag, hasPhase, sp, mi, cols) ==
    IF storeRaises(cols, mi[2], c.nModes) # "none"
    THEN Result(r.tel, storeRaises(cols, mi[2], c.nModes), 0, intMat)
    ELSE screenLoop(r.tel,
             [col \in DOMAIN intMat |->
                 IF col \in cols[1]..(cols[1] + cols[2] - 1)
                 THEN Measurement(sp, r.loc, col - cols[1])
                 ELSE intMat[col]],
             p + 1, c, wfsTag, hasPhase, sp)

\* pass p of the loop returned r: the push is followed by the pull, the pull by
\* the assignment to intMat, the loop variable being the one the sun branch
\* has rebound
screen_pass(r, intMat, p, c, wfsTag, hasPhase, sp, mi) ==
    IF r.raised # "none" THEN Result(r.tel, r.raised, 0, intMat)
    ELSE IF p % 2 = 0 THEN screenLoop(r.tel, intMat, p + 1, c, wfsTag, hasPhase, r.loc)
    ELSE screen_store(r, intMat, p, c, wfsTag, hasPhase, sp, mi,
                      storeCols(rebound(r.tel.src, p \div 2), c))

\* the loop "for i in range(nCycle)" from pass p on: the push and the pull of
\* cycle p \div 2
screenLoop(t, intMat, p, c, wfsTag, hasPhase, sp) ==
    IF p >= 2 * c.nCycle THEN Result(t, "none", 0, intMat)
    ELSE Only({screen_pass(r, intMat, p, c, wfsTag, hasPhase, sp, modesIn(p \div 2, c)) :
                  r \in {screenPass(t, wfsTag,
                                    BatchOPD(IF p % 2 = 0 THEN 1 ELSE -1,
                                             modesIn(p \div 2, c)[1], modesIn(p \div 2, c)[2]),
                                    hasPhase)}})

\* the loop over the cycles, c holding nModes, nCycle, nExtra and the capped
\* nMeasurements
screen_from(r, c, wfsTag, hasPhase) ==
    IF r.raised # "none" THEN Result(r.tel, r.raised, 0, <<>>)
    ELSE screenLoop(r.tel, [col \in 0..(c.nModes - 1) |-> ZeroColumn], 0, c, wfsTag,
                    hasPhase, 0)

\* InteractionMatrixFromPhaseScreen(ngs, atm, tel, wfs, phasScreens, stroke,
\* nMeasurements) for nModes screens, from the return r of "ngs*tel" on; loc
\* is intMat
InteractionMatrixFromPhaseScreen(r, wfsTag, nModes, nMeasurements, hasPhase) ==
    screen_from(r,
                [nModes        |-> nModes,
                 nCycle        |-> Ceil(nModes, nMeasurements),
                 nExtra        |-> nModes % nMeasurements,
                 nMeasurements |-> Min(nMeasurements, nModes)],
                wfsTag, hasPhase)

\* one of the two calibration functions, from the return c of "ngs*tel" on
calibration(c, which, wfsTag, flag, nModes, nMeasurements, single_pass) ==
    IF which = "InteractionMatrix"
    THEN InteractionMatrix(c, wfsTag, flag, nModes, nMeasurements, single_pass)
    ELSE InteractionMatrixFromPhaseScreen(c, wfsTag, nModes, nMeasurements, flag)

(***************************************************************************)
(* Specification of the calibration                                        *)
(***************************************************************************)
MaxModes == 3

\* the sources of a calibration
CalibrationSources == {"source", "asterism", "sun1", "sun"}

\* nMeasurements = None, smaller than, equal to and larger than nModes
MeasurementCounts == {None} \cup (1..(MaxModes + 1))

\* the calibration functions
Calibrations == {"InteractionMatrix", "InteractionMatrixFromPhaseScreen"}

\* InteractionMatrix(ngs, atm, tel, dm, wfs, M2C, stroke, ...) or
\* InteractionMatrixFromPhaseScreen(ngs, atm, tel, wfs, phasScreens, stroke, ...)
\* with a telescope as its constructor leaves it.  flag is wfs.gpu_available
\* for the first, and whether an asterism has an attribute phase for the second
Calibrate ==
    /\ tel.src = NoSrc
    /\ \E which \in Calibrations, k \in CalibrationSources, wfsTag \in WFSTags,
          flag \in BOOLEAN, nModes \in 1..MaxModes,
          nMeasurements \in MeasurementCounts, single_pass \in BOOLEAN :
        LET r == calibration(src_mul(SourceOfKind(k), tel), which, wfsTag, flag, nModes,
                             nMeasurements, single_pass)
        IN  /\ which = "InteractionMatrixFromPhaseScreen" =>
                  /\ nMeasurements # None
                  /\ ~single_pass
                  /\ k # "asterism" => flag
            /\ tel' = r.tel
            /\ out' = Call(which, <<k, wfsTag, flag, nModes, nMeasurements, single_pass>>,
                           r.raised, 0, r.loc)
            /\ UNCHANGED sun

NextIM == Calibrate

SpecIM == Init /\ [][NextIM]_vars

(***************************************************************************)
(* Specification of the OPD assignments                                    *)
(***************************************************************************)
NextOPD ==
    \/ CoupleSource
    \/ CoupleAsterism
    \/ CoupleSun
    \/ SetOPD
    \/ SetOPD_no_pupil

SpecOPD == Init /\ [][NextOPD]_vars

(***************************************************************************)
(* Specification of the field propagation alone                            *)
(***************************************************************************)
InitPF ==
    /\ sun = NoSun
    /\ \E resolution \in 1..MaxResolution : tel = Telescope(resolution, 8, 10)
    /\ out = NoCall

\* tel.PropagateField(amplitude, phase, zeroPaddingFactor, img_resolution)
DoPropagateField ==
    \E zpfH \in 1..MaxZpfH, img_resolution \in {None} \cup 1..MaxImgRes, amplitude \in {0, 1} :
        LET r == PropagateField(tel, amplitude, Phase(0, 500, -1), zpfH,
                                IF img_resolution = None THEN None ELSE 2 * img_resolution)
        IN  /\ tel' = r.tel
            /\ out' = Call("PropagateField", <<zpfH, img_resolution>>, r.raised, 0, r.loc)
            /\ UNCHANGED sun

NextPF == DoPropagateField

SpecPF == InitPF /\ [][NextPF]_vars

(***************************************************************************)
(* Specification of the construction of extended sources                   *)
(***************************************************************************)
InitES ==
    /\ sun = NoSun
    /\ tel = Telescope(2, 8, 0)
    /\ out = NoCall

\* src = ExtendedSource(...)
ExtendedSource_init ==
    /\ sun = NoSun
    /\ \E optBand \in OptBands, fov \in FovValues, img_PS \in PlateScales,
          nSubDirs \in 1..MaxNSubDirs, patch_padding \in PaddingValues,
          subDir_margin \in MarginValues :
          sun' = ExtendedSource(optBand, <<0, 0>>, fov, img_PS, nSubDirs,
                                patch_padding, subDir_margin)
    /\ UNCHANGED <<tel, out>>

NextES == ExtendedSource_init

SpecES == InitES /\ [][NextES]_vars

(***************************************************************************)
(* Specification of the pupil of a telescope                               *)
(***************************************************************************)
\* binary masks of side resolution
PupilMasks(resolution) ==
    {[k \in 0..(resolution * resolution - 1) |-> 1],
     [k \in 0..(resolution * resolution - 1) |-> k % 2],
     [k \in 0..(resolution * resolution - 1) |-> IF k = 0 THEN 0 ELSE 1]}

\* reflectivities 1 and 0.5, and a map alternating between 0.5 and 1
Reflectivities(resolution) ==
    {Scalar(ReflUnit), Scalar(1),
     Map([k \in 0..(resolution * resolution - 1) |-> 1 + (k % 2)])}

\* lists of spider angles
SpiderAngles == {(0 :> 0), (0 :> 90), (0 :> 0) @@ (1 :> 90), (0 :> 180) @@ (1 :> 270)}

SpiderThickness == {-1, 0, 1, 5}

\* tel = Telescope(resolution, 8, centralObstruction, pupil, pupilReflectivity)
InitPupil ==
    /\ sun = NoSun
    /\ \E resolution \in {2, 3}, coH \in {0, 1} :
         \E pupil \in {NoPupil} \cup {Mask(m) : m \in PupilMasks(resolution)},
            pupilReflectivity \in Reflectivities(resolution) :
            /\ tel = Telescope_init(resolution, 8, <<1, 1000>>, coH, 0, pupil,
                                    pupilReflectivity)
            /\ out = Call("Telescope_init", <<pupilReflectivity>>, "none", 0, <<>>)

\* tel.set_pupil()
SetPupil ==
    LET r == set_pupil(tel)
    IN  /\ tel' = r.tel
        /\ out' = Call("set_pupil", <<>>, r.raised, r.printed, <<>>)
        /\ UNCHANGED sun

\* tel.pupil = val
AssignPupil ==
    \E val \in PupilMasks(tel.resolution) :
        /\ tel' = pupil_setter(tel, val)
        /\ out' = Call("pupil", <<val>>, "none", IF tel.isInitialized THEN 1 ELSE 0, <<>>)
        /\ UNCHANGED sun

\* tel.apply_spiders(angle, thickness_spider)
ApplySpiders ==
    \E angle \in SpiderAngles, thickness_spider \in SpiderThickness :
        LET r == apply_spiders(tel, angle, thickness_spider)
        IN  /\ tel' = r.tel
            /\ out' = Call("apply_spiders", <<angle, thickness_spider>>, r.raised,
                           r.printed, <<>>)
            /\ UNCHANGED sun

NextPupil == SetPupil \/ AssignPupil \/ ApplySpiders

SpecPupil == InitPupil /\ [][NextPupil]_vars

(***************************************************************************)
(* Properties of the pupil (under SpecPupil)                               *)
(***************************************************************************)
\* C18: after construction and any sequence of set_pupil, assignments of a
\* binary mask to tel.pupil and apply_spiders with positive or non-positive
\* thickness, pupilReflectivity is zero at every pixel where the pupil is zero
\* and pixelArea is the number of non-zero pupil pixels.
C18_ReflectivityMasked ==
    /\ tel.pupilReflectivity.kind = "map"
    /\ DOMAIN tel.pupilReflectivity.v = DOMAIN tel.pupil
    /\ \A k \in DOMAIN tel.pupil :
          tel.pupil[k] = 0 => tel.pupilReflectivity.v[k] = 0
    /\ tel.pixelArea = Cardinality({k \in DOMAIN tel.pupil : tel.pupil[k] # 0})

\* spiders of positive thickness removed pixels from a pupil that stays lit
C18_Witness ==
    /\ out.op = "apply_spiders"
    /\ out.args[2] > 0
    /\ tel.pixelArea > 0
    /\ \E k \in DOMAIN tel.pupil :
          tel.pupil[k] = 0 /\ insideDisc(tel.resolution)[k] = 1

\* C19: once the construction of a Telescope with pupilReflectivity = r
\* completes, r a scalar or a 2D map, the reflectivity map is the pupil mask
\* multiplied by r at every pixel.
C19_ReflectivityScaled ==
    out.op = "Telescope_init" =>
        /\ tel.pupilReflectivity.kind = "map"
        /\ \A k \in DOMAIN tel.pupil :
              tel.pupilReflectivity.v[k]
                  = tel.pupil[k] * (IF out.args[1].kind = "scalar"
                                    THEN out.args[1].s ELSE out.args[1].v[k])

(***************************************************************************)
(* Specification of the flux of an extended source                         *)
(***************************************************************************)
\* values assigned to src.nPhoton
NPhotonValues == {7, 36, 100}

\* telescopes the source is coupled to: resolution 2 or 3, frames of 1 or 2 ms
FluxTelescopes ==
    {Telescope_init(resolution, 8, samplingTime, 0, 10, NoPupil, Scalar(ReflUnit)) :
        resolution \in {2, 3}, samplingTime \in {<<1, 1000>>, <<1, 500>>}}

\* src = ExtendedSource(...); tel = Telescope(...)
InitFlux ==
    /\ sun \in Suns
    /\ tel \in FluxTelescopes
    /\ out = NoCall

\* src.nPhoton = val; tel.src is the same object once src was coupled
SetNPhoton ==
    \E val \in NPhotonValues :
        /\ sun' = nPhoton_setter(sun, val)
        /\ tel' = IF tel.src.tag = "sun" THEN [tel EXCEPT !.src = nPhoton_setter(@, val)]
                                         ELSE tel
        /\ out' = Call("nPhoton", <<val>>, "none", 0, <<>>)

\* src*tel for the source the caller holds
CoupleHeldSun ==
    LET r == ExtendedSource_mul(sun, tel)
    IN  /\ tel' = r.tel
        /\ sun' = IF r.raised = "none" THEN r.tel.src ELSE sun
        /\ out' = Call("ExtendedSource_mul", <<sun.nSubDirs>>, r.raised, 0, <<>>)

NextFlux == SetNPhoton \/ CoupleHeldSun \/ AssignPupil

SpecFlux == InitFlux /\ [][NextFlux]_vars

(***************************************************************************)
(* Properties of the flux of an extended source (under SpecFlux)           *)
(***************************************************************************)
\* the flux map f is the telescope's reflectivity times nPhoton/nSubDirs^2 x
\* samplingTime x (D/resolution)^2, with nPhoton/nSubDirs^2 exact or rounded
onceDivided(f, t, nPhoton, nSubDirs) ==
    /\ f.reflectivity = t.pupilReflectivity.v
    /\ \/ f.num * nSubDirs * nSubDirs * t.samplingTime[2] * t.resolution * t.resolution
              = nPhoton * t.samplingTime[1] * t.D * t.D * f.den
       \/ f.num * t.samplingTime[2] * t.resolution * t.resolution
              = Round(nPhoton, nSubDirs * nSubDirs) * t.samplingTime[1] * t.D * t.D * f.den

\* C17: right after an extended source whose nPhoton is the one of its
\* construction is coupled to a telescope, the flux map of every sub-direction
\* is pupilReflectivity x nPhoton x samplingTime x (D/resolution)^2 divided
\* once by nSubDirs^2, up to the rounding of nPhoton/nSubDirs^2.
C17_FluxDividedOnce ==
    (/\ out.op = "ExtendedSource_mul"
     /\ out.raised = "none"
     /\ sun.nPhoton = zeroPoint(sun.optBand)) =>
        \A i \in DOMAIN sun.sun_subDir_ast.src :
            onceDivided(sun.sun_subDir_ast.src[i].fluxMap, tel, sun.nPhoton, sun.nSubDirs)

\* C20: right after an extended source is coupled to a telescope, the flux map
\* of every sub-direction is computed from the current src.nPhoton, also when
\* it was assigned after the construction: it is the map the coupling computes
\* from round(src.nPhoton/nSubDirs^2), or the once-divided map of src.nPhoton.
C20_FluxFollowsNPhoton ==
    (out.op = "ExtendedSource_mul" /\ out.raised = "none") =>
        \A i \in DOMAIN sun.sun_subDir_ast.src :
            \/ sun.sun_subDir_ast.src[i].fluxMap
                   = fluxMap(tel.pupilReflectivity, sun.nSubDirs,
                             Round(sun.nPhoton, sun.nSubDirs * sun.nSubDirs),
                             tel.samplingTime, tel.D, tel.resolution)
            \/ onceDivided(sun.sun_subDir_ast.src[i].fluxMap, tel, sun.nPhoton,
                           sun.nSubDirs)

(***************************************************************************)
(* Properties of the constructor of ExtendedSource (under SpecES)          *)
(***************************************************************************)
\* the attributes the tiling, the sub-direction sources and the filters add
tilingAttrs == {"subDirs_coordinates", "subDirs_sun", "sun_subDir_ast", "filter_2D"}

\* C1: a construction with nSubDirs > 7 ends in the gate's error with
\* is_initialized False and no sub-direction coordinates, tile images,
\* sub-direction sources or blending filters created; a construction with
\* nSubDirs in 1..7 never ends in the gate's error.
C1_FeasibilityGate ==
    sun # NoSun =>
        /\ sun.nSubDirs > 7 =>
              /\ sun.raised = "BaseException"
              /\ ~sun.is_initialized
              /\ sun.attrs \cap tilingAttrs = {}
              /\ sun.subDirs_coordinates = <<>>
              /\ sun.subDirs_sun = 0
              /\ sun.sun_subDir_ast.n_source = 0
              /\ sun.filter_2D = <<>>
        /\ sun.nSubDirs \in 1..7 => sun.raised # "BaseException"

\* a construction with nSubDirs = 8 was rejected by the gate
C1_Witness ==
    sun # NoSun /\ sun.nSubDirs = 8 /\ sun.raised = "BaseException"

\* C9: for every constructed extended source, the blending filters of all
\* tiles, each placed at the mosaic offset computePSF uses for it, sum at every
\* pixel of the mosaic interior to the peak weight of the tent window.
C9_PartitionOfUnity ==
    sun.is_initialized =>
        \A px \in mosaicInterior(sun) :
            mosaicSum(sun, px[1], px[2]) = templateMax(sun.filt_width)

\* side of sun_PSF_combined and sun_psf_tmp_3D
canvasSide(s) == Round(s.fov + s.patch_padding, s.img_PS)

\* global_corner_x_end - global_corner_x
tileWidth(s) ==
    LET ts == subDirSize(s.fov, s.patch_padding, s.nSubDirs)
    IN  Round(ts[1], ts[2] * s.img_PS)

\* start_FFT for a convolution canvas of side pad_img_size
startFFT(s, pad_img_size) ==
    LET ts == subDirSize(s.fov, s.patch_padding, s.nSubDirs)
    IN  Round(pad_img_size * ts[2] * s.img_PS - ts[1], 2 * ts[2] * s.img_PS)

\* sides of per-tile PSFs the compositor is checked with
MaxPSFSide == 4

\* C11: for every constructed extended source and every tile index along an
\* axis, the destination window [corner, corner + round(tileSize/img_PS)) lies
\* inside the accumulation canvas of side round((fov+patch_padding)/img_PS)
\* and has the length of the tile's blending filter and of the window
\* [start_FFT, end_FFT) cropped from the convolution.
C11_DestinationWindowFits ==
    sun.is_initialized =>
        \A dir \in 0..(sun.nSubDirs - 1) :
            /\ globalCorner(sun, dir) >= 0
            /\ globalCorner(sun, dir) + tileWidth(sun) <= canvasSide(sun)
            /\ tileWidth(sun) = sun.filt_width
            /\ \A q \in 1..MaxPSFSide :
                  LET S == pow2ceil(sun.subDirs_sun + q)
                  IN  SliceLen(startFFT(sun, S), startFFT(sun, S) + tileWidth(sun), S)
                          = tileWidth(sun)

\* C15: for a source on the axis with nSubDirs in 1..7, get_subDirs lays the
\* tiles out as follows and the coordinates it returns are these, with F = fov +
\* patch_padding: for nSubDirs > 1 every tile has side 2F/(nSubDirs + 1), the
\* centres of neighbouring tiles are half a tile side apart along each axis, the
\* first tile starts at -F/2 and the last one ends at +F/2 on each axis; for
\* nSubDirs = 1 the single tile has side F and is centred on the source.
C15_TileGeometry ==
    (sun # NoSun /\ sun.nSubDirs \in 1..7) =>
        LET n   == sun.nSubDirs
            F   == sun.fov + sun.patch_padding
            loc == subDirLoc(sun.coordinates, sun.fov, sun.patch_padding, n)
        IN  /\ "subDirs_coordinates" \in sun.attrs => sun.subDirs_coordinates = loc
            /\ \A d \in DOMAIN loc :
              LET t == loc[d]
              IN  /\ n > 1 => t.size[1] * (n + 1) = 2 * F * t.size[2]
                  /\ n = 1 => (t.size[1] = F * t.size[2] /\ t.x = 0 /\ t.y = 0)
                  /\ d[1] + 1 < n =>
                        2 * t.size[2] * (loc[<<d[1] + 1, d[2]>>].x - t.x) = t.size[1] * t.den
                  /\ d[2] + 1 < n =>
                        2 * t.size[2] * (loc[<<d[1], d[2] + 1>>].y - t.y) = t.size[1] * t.den
                  /\ d[1] = 0 => 2 * t.size[2] * t.x - t.size[1] * t.den = -(F * t.size[2] * t.den)
                  /\ d[2] = 0 => 2 * t.size[2] * t.y - t.size[1] * t.den = -(F * t.size[2] * t.den)
                  /\ d[1] = n - 1 => 2 * t.size[2] * t.x + t.size[1] * t.den = F * t.size[2] * t.den
                  /\ d[2] = n - 1 => 2 * t.size[2] * t.y + t.size[1] * t.den = F * t.size[2] * t.den

\* a tiling of 3 x 3 or more tiles was computed
C15_Witness ==
    sun # NoSun /\ "subDirs_coordinates" \in sun.attrs /\ sun.nSubDirs >= 3

\* C16: for every source with nSubDirs in 1..7 and every tile index along an
\* axis, the slice cropped from the padded reference image lies inside that
\* image and spans ceil((tileSize + subDir_margin)/img_PS) pixels, the side of
\* the pre-allocated tile array.
C16_CropMatchesTile ==
    (sun # NoSun /\ sun.nSubDirs \in 1..7) =>
        \A dir \in 0..(sun.nSubDirs - 1) :
            LET lo == cropLo(sun.fov, sun.patch_padding, sun.subDir_margin, sun.img_PS,
                             sun.nSubDirs, dir)
                hi == cropHi(sun.fov, sun.patch_padding, sun.subDir_margin, sun.img_PS,
                             sun.nSubDirs, dir)
            IN  /\ 0 <= lo
                /\ hi <= sun.sun_padded
                /\ hi - lo = subDirImgSide(sun.fov, sun.patch_padding, sun.subDir_margin,
                                           sun.img_PS, sun.nSubDirs)

\* C25: for every source with nSubDirs in 1..7 whose tiling was computed, the
\* construction of the blending filters completes, the filter width odd or
\* even, and the slices [0 : w//2] and [-w//2 :] have the same length.
C25_FilterLoopCompletes ==
    (sun # NoSun /\ "filter_2D" \in sun.attrs) =>
        /\ sun.raised = "none"
        /\ sun.is_initialized
        /\ halfLo(sun.filt_width) = halfHi(sun.filt_width)

(***************************************************************************)
(* Properties of Telescope.PropagateField (under SpecPF)                   *)
(***************************************************************************)
\* C2: a PropagateField call whose img_resolution exceeds zeroPaddingFactor
\* times the pupil resolution raises the gate's ValueError and leaves
\* focal_EMF and PSF as they were before the call; a call whose img_resolution
\* does not exceed it, or that passes none, does not raise the gate's error.
C2_ResolutionGate ==
    [][out'.op = "PropagateField" =>
          LET zpfH == out'.args[1]
              img  == out'.args[2]
              over == img # None /\ 2 * img > zpfH * tel.resolution
          IN  /\ over => /\ out'.raised = "ValueError:resolution"
                         /\ tel'.focal_EMF = tel.focal_EMF
                         /\ tel'.PSF = tel.PSF
              /\ ~over => out'.raised # "ValueError:resolution"]_vars

\* the gate fired on a telescope that already held a PSF and a focal field
C2_Witness ==
    /\ out.op = "PropagateField"
    /\ out.raised = "ValueError:resolution"
    /\ tel.PSF # Unset
    /\ tel.focal_EMF # Unset

\* C12: after a PropagateField call with a whole target resolution, the centre
\* of the pattern falls on (size - 1)/2 of the returned PSF of side size: on an
\* index when size is odd, midway between size/2 - 1 and size/2 when it is
\* even, whatever the parities of N and img_size and whatever the oversampling.
C12_PatternCentred ==
    (out.op = "PropagateField" /\ out.raised = "none" /\ out.args[2] # None) =>
        out.loc.centre = 2 * out.loc.oversampling * (tel.PSF.v[0].side - 1)

\* C13: for every PropagateField call that passes the resolution gate, the
\* target resolution given or left to its default, the crop indices satisfy
\* 0 <= ids[0] <= ids[1] <= N and ids[1] - ids[0] = img_size.
C13_CropInsideField ==
    (out.op = "PropagateField" /\ out.raised # "ValueError:resolution") =>
        /\ 0 <= out.loc.ids[1]
        /\ out.loc.ids[1] <= out.loc.ids[2]
        /\ out.loc.ids[2] <= out.loc.N
        /\ out.loc.ids[2] - out.loc.ids[1] = out.loc.img_size

\* a PropagateField call that reached the padding
padded == out.op = "PropagateField" /\ out.raised \notin {"ValueError:resolution", "ValueError:pad_width"}

\* C14 as stated: the padded field has side exactly
\* floor(zeroPaddingFactor x oversampling x pupilSize), with the same number of
\* zero pixels on each side of the pupil.
C14_PaddedSideIsFloor ==
    padded => /\ out.loc.N = out.loc.fixN
              /\ out.loc.pad_before = out.loc.pad_after

\* C14, amended: the padded field has side pupilSize + 2 x pad_width with
\* pad_width = ceil((floor(zeroPaddingFactor x oversampling x pupilSize) -
\* pupilSize)/2) zero pixels on each side of the pupil; that is the floor when
\* it has the parity of pupilSize and the floor plus one otherwise.
C14_PaddedSideSymmetric ==
    padded => /\ out.loc.pad_before = out.loc.pad_after
              /\ out.loc.N = tel.resolution + 2 * out.loc.pad_before
              /\ out.loc.N = out.loc.fixN + ((out.loc.fixN - tel.resolution) % 2)

\* a padding that had to go one pixel beyond the floor
C14_Witness ==
    padded /\ out.raised = "none" /\ out.loc.N = out.loc.fixN + 1

(***************************************************************************)
(* Properties of Telescope.computePSF (under Spec)                         *)
(***************************************************************************)
\* some member's wavelength differs from the first member's
mixedWavelengths(s) ==
    \E i \in DOMAIN memberList(s) : memberList(s)[i].wavelength # memberList(s)[0].wavelength

\* the call just made ran computePSF
ranComputePSF(call) == call.op \in {"computePSF", "mul_detector"}

\* C3: a computePSF call on a source set in which some member's wavelength
\* differs from the first member's never returns normally, wherever the
\* differing member stands; when the requested image passes the resolution
\* gate the error is the wavelength error.
C3_MixedWavelengthsRaise ==
    [][ranComputePSF(out') /\ mixedWavelengths(tel.src) =>
          /\ out'.raised # "none"
          /\ (out'.op = "computePSF" /\ out'.args[2] = None) =>
                out'.raised = "AttributeError:wavelength"]_vars

\* the wavelength error was raised for an asterism whose last member differs
C3_Witness ==
    /\ out.op = "computePSF"
    /\ out.raised = "AttributeError:wavelength"
    /\ tel.src.tag = "asterism"
    /\ tel.src.n_source = 3
    /\ tel.src.src[2].wavelength # tel.src.src[0].wavelength
    /\ tel.src.src[1].wavelength = tel.src.src[0].wavelength

\* C4: when computePSF aborts on mixed wavelengths, no member has been
\* propagated: PSF, PSF_norma and focal_EMF hold the values they had before
\* the call.
C4_AbortLeavesNoPartialResult ==
    [][ranComputePSF(out') /\ out'.raised = "AttributeError:wavelength" =>
          /\ tel'.PSF = tel.PSF
          /\ tel'.PSF_norma = tel.PSF_norma
          /\ tel'.focal_EMF = tel.focal_EMF]_vars

\* C5: a computePSF call on a telescope with no coupled source ends in the
\* dedicated "not coupled to any source object" error of the src-is-None check.
C5_UncoupledTelescopeError ==
    (out.op = "computePSF" /\ tel.src = NoSrc) => out.raised = "AttributeError:not coupled"

\* C7: over the calls made on one telescope, a call prints the out-of-field
\* warning at most once and only while warning_src is False, setting it True;
\* once warning_src is True no operation resets it and no call prints again.
C7_WarningAtMostOnce ==
    [][/\ out'.printed <= 1
       /\ out'.printed = 1 => (~tel.warning_src /\ tel'.warning_src)
       /\ tel.warning_src => (tel'.warning_src /\ out'.printed = 0)]_vars

\* a later call on an off-axis source returned without printing the warning
C7_Witness ==
    /\ out.op = "computePSF"
    /\ out.raised = "none"
    /\ out.printed = 0
    /\ tel.src.tag = "source"
    /\ tel.src.coordinates[1] = 1
    /\ tel.warning_src

\* entry k of a PSF value is the PSF of member k of the source set
psfOfMember(psf, ms, k, norma) ==
    psf.v[k].amp = k /\ psf.v[k].phase = ms[k].phase /\ psf.v[k].norma = norma

\* C8: after a computePSF call that returned, PSF and PSF_norma are a single
\* PSF exactly when the source set has one member and the source is not an
\* extended source; otherwise they are lists with one entry per member, entry
\* k being the PSF of member k.
C8_UnwrapSingleMember ==
    (out.op = "computePSF" /\ out.raised = "none") =>
        LET ms == memberList(tel.src)
        IN  IF Len0(ms) = 1 /\ tel.src.tag # "sun"
            THEN /\ tel.PSF.kind = "single" /\ tel.PSF_norma.kind = "single"
                 /\ psfOfMember(tel.PSF, ms, 0, FALSE)
                 /\ psfOfMember(tel.PSF_norma, ms, 0, TRUE)
            ELSE /\ tel.PSF.kind = "list" /\ tel.PSF_norma.kind = "list"
                 /\ DOMAIN tel.PSF.v = DOMAIN ms
                 /\ DOMAIN tel.PSF_norma.v = DOMAIN ms
                 /\ \A k \in DOMAIN ms :
                        /\ psfOfMember(tel.PSF, ms, k, FALSE)
                        /\ psfOfMember(tel.PSF_norma, ms, k, TRUE)

\* computePSF returned on an extended source of a single sub-direction and
\* left a list
C8_Witness ==
    /\ out.op = "computePSF"
    /\ out.raised = "none"
    /\ tel.src.tag = "sun"
    /\ tel.src.nSubDirs = 1
    /\ tel.PSF.kind = "list"

\* C10: whenever computePSF reaches the compositor of an extended source, the
\* zero-padded brightness patch and every zero-padded per-tile PSF have the
\* side of the common canvas, 2^ceil(log2(p + q)) for patch side p and PSF
\* side q.
C10_CommonCanvasSide ==
    (/\ out.op = "computePSF"
     /\ tel.src.tag = "sun"
     /\ out.raised \in {"none", "RuntimeError"}) =>
        /\ out.loc.pad_img_size = pow2ceil(tel.src.subDirs_sun + tel.PSF.v[0].side)
        /\ out.loc.Object_O = out.loc.pad_img_size
        /\ \A i \in DOMAIN out.loc.Coherence_H :
               out.loc.Coherence_H[i] = out.loc.pad_img_size

\* C21: src*tel for an extended source succeeds whatever the telescope was
\* coupled to before; afterwards tel.src is the extended source, tel.OPD and
\* tel.OPD_no_pupil are lists of nSubDirs^2 maps, and the phase of every
\* sub-direction is its OPD entry x 2pi/wavelength.
C21_SunCouplesFromAnyState ==
    out.op = "ExtendedSource_mul" =>
        /\ out.raised = "none"
        /\ tel.src.tag = "sun"
        /\ tel.src.nSubDirs = out.args[1]
        /\ tel.OPD.kind = "list"
        /\ Len0(tel.OPD.v) = out.args[1] * out.args[1]
        /\ tel.OPD_no_pupil.kind = "list"
        /\ Len0(tel.OPD_no_pupil.v) = out.args[1] * out.args[1]
        /\ \A i \in DOMAIN tel.src.sun_subDir_ast.src :
              tel.src.sun_subDir_ast.src[i].phase
                  = Phase(tel.OPD.v[i], tel.src.sun_subDir_ast.src[i].wavelength, -1)

\* C23: after a computePSF call that returned, every entry of PSF_norma is the
\* entry of PSF divided by its sum, and for an extended source PSF_sun_norma
\* is PSF_sun divided by its sum
C23_NormalisedOutputs ==
    (out.op = "computePSF" /\ out.raised = "none") =>
        /\ DOMAIN tel.PSF_norma.v = DOMAIN tel.PSF.v
        /\ \A k \in DOMAIN tel.PSF_norma.v :
              /\ ~tel.PSF.v[k].norma
              /\ tel.PSF_norma.v[k] = [tel.PSF.v[k] EXCEPT !.norma = TRUE]
        /\ tel.src.tag = "sun" =>
              /\ ~tel.PSF_sun.norma
              /\ tel.PSF_sun_norma = [tel.PSF_sun EXCEPT !.norma = TRUE]

\* C24: in a computePSF call for an extended source that returned, every tile
\* wrote its own layer and no other, so that the tile loop taken in any order,
\* followed by the sum over the layers, gives the composite of the loop order
C24_TileOrderIrrelevant ==
    (out.op = "computePSF" /\ out.raised = "none" /\ tel.src.tag = "sun") =>
        LET s      == tel.src
            canvas == out.loc.canvas
            ref    == tileLoop(s, loopOrder(s.nSubDirs), canvas, zeroLayers(s, canvas))
        IN  /\ \A d \in DOMAIN s.filter_2D :
                  ref[d[1] * s.nSubDirs + d[2]] = tileLayer(s, d, canvas)
            /\ \A ord \in tileOrders(s.nSubDirs) :
                  sun_PSF_combined(tileLoop(s, ord, canvas, zeroLayers(s, canvas)), canvas)
                      = sun_PSF_combined(ref, canvas)

\* a composite of four tiles was computed
C24_Witness ==
    /\ out.op = "computePSF"
    /\ out.raised = "none"
    /\ tel.src.tag = "sun"
    /\ tel.src.nSubDirs = 2
    /\ \E px \in DOMAIN tileLayer(tel.src, <<0, 1>>, out.loc.canvas) :
          /\ tileLayer(tel.src, <<0, 1>>, out.loc.canvas)[px] > 0
          /\ tileLayer(tel.src, <<1, 0>>, out.loc.canvas)[px] > 0

(***************************************************************************)
(* Properties of the OPD assignments (under SpecOPD)                       *)
(***************************************************************************)
\* C6: assigning to OPD or OPD_no_pupil a list whose length differs from the
\* number of coupled sources (asterism members, sub-directions of an extended
\* source) raises, and no source's phase is changed by the assignment.
C6_MismatchedListRaises ==
    [][(/\ out'.op \in {"OPD", "OPD_no_pupil"}
        /\ tel.src.tag \in {"asterism", "sun"}
        /\ out'.args[1].kind = "list"
        /\ Len0(out'.args[1].v) # Len0(memberList(tel.src)))
       => /\ out'.raised # "none"
          /\ memberList(tel'.src) = memberList(tel.src)]_vars

(***************************************************************************)
(* Properties of the products tel*obj and of resetOPD (under SpecMul)      *)
(***************************************************************************)
\* C22: sun*obj for an object that is neither a telescope nor an atmosphere
\* raises and changes neither object; tel*wfs for a pyramid sensor on a
\* telescope coupled to an extended source raises, leaves tel.optical_path at
\* the value it had before the call and does not reassign the telescope of
\* the sensor
C22_RejectedProductsChangeNothing ==
    [][/\ out'.op = "ExtendedSource_mul_obj" =>
              /\ out'.raised = "AttributeError"
              /\ tel' = tel
              /\ sun' = sun
       /\ (out'.op = "mul_wfs" /\ out'.args = <<"pyramid", "sun">>) =>
              /\ out'.raised = "ValueError"
              /\ tel'.optical_path = tel.optical_path
              /\ out'.loc.telescope = "own"]_vars

\* a pyramid sensor was refused by a telescope coupled to an extended source
C22_Witness ==
    /\ out.op = "mul_wfs"
    /\ out.args = <<"pyramid", "sun">>
    /\ out.raised = "ValueError"
    /\ tel.src.tag = "sun"
    /\ Len(tel.optical_path) >= 2

\* C26: resetOPD on a telescope coupled to an asterism leaves OPD and
\* OPD_no_pupil as lists of one flat map per source, and the single-source
\* branch runs only for a source that is neither an asterism nor an extended
\* source
C26_ResetKeepsAsterismLists ==
    out.op = "resetOPD" =>
        /\ out.args[1] = "asterism" =>
              /\ out.raised = "none"
              /\ tel.OPD.kind = "list"
              /\ Len0(tel.OPD.v) = tel.src.n_source
              /\ \A i \in DOMAIN tel.OPD.v : tel.OPD.v[i] = PupilOPD
              /\ tel.OPD_no_pupil.kind = "list"
              /\ Len0(tel.OPD_no_pupil.v) = tel.src.n_source
              /\ \A i \in DOMAIN tel.OPD_no_pupil.v : tel.OPD_no_pupil.v[i] = PupilOPD
        /\ (\E i \in DOMAIN out.loc : out.loc[i] = "single") =>
              out.args[1] \notin {"asterism", "sun"}

\* C27: tel*dm on a telescope coupled to an asterism whose OPD list has one
\* entry per source returns without raising, every entry updated; the error of
\* the wrong object is raised only for a source that is neither a point
\* source, an asterism nor an extended source
C27_DMUpdatesAsterism ==
    out.op = "mul_dm" =>
        /\ (out.args[2] = "asterism" /\ out.loc # <<>> /\ out.loc[1] = "asterism"
              /\ tel.OPD.kind = "list") =>
              /\ out.raised = "none"
              /\ \A i \in DOMAIN tel.OPD.v : tel.OPD.v[i] = dm_propagation(DM(out.args[1]))
        /\ (\E i \in DOMAIN out.loc : out.loc[i] = "wrong object") =>
              out.args[2] \notin {"source", "asterism", "sun"}

\* C28: tel*detector on a path that already ends with the detector leaves the
\* path as it is, and tel*wfs leaves the path exactly as it was
C28_PathDoesNotGrow ==
    [][/\ (out'.op = "mul_detector"
              /\ tel.optical_path[Len(tel.optical_path)] = <<"detector", 4>>) =>
              tel'.optical_path = tel.optical_path
       /\ out'.op = "mul_wfs" => tel'.optical_path = tel.optical_path]_vars

(***************************************************************************)
(* Properties of the calibration functions (under SpecIM)                  *)
(***************************************************************************)
\* the columns of intMat that iteration i of the call recorded in out has
\* commanded, as <<first column, number of columns>>
blockOf(i) ==
    IF out.op = "InteractionMatrix" THEN <<i, 1>>
    ELSE modesIn(i, [nModes        |-> out.args[4],
                     nCycle        |-> Ceil(out.args[4], out.args[5]),
                     nExtra        |-> out.args[4] % out.args[5],
                     nMeasurements |-> Min(out.args[5], out.args[4])])

\* the number of iterations of the loop of the call recorded in out
iterationsOf ==
    IF out.op = "InteractionMatrix"
    THEN measurementsOf(out.args[2], out.args[3], out.args[4], out.args[5])
    ELSE Ceil(out.args[4], out.args[5])

\* the signal of the push of the columns blk
pushOf(blk) ==
    IF out.op = "InteractionMatrix" THEN DMShape + blk[1] + 1
    ELSE BatchOPD(1, blk[1], blk[2])

\* C29: in InteractionMatrix and InteractionMatrixFromPhaseScreen, for every
\* kind of source and both settings of single_pass, the measurement of
\* iteration i is stored in the column(s) of mode (block) i: every column of
\* the block an iteration commanded holds the push signal of that block
C29_StoredInOwnColumns ==
    (out.op \in Calibrations /\ out.raised = "none") =>
        \A i \in 0..(iterationsOf - 1) :
            \A col \in blockOf(i)[1]..(blockOf(i)[1] + blockOf(i)[2] - 1) :
                /\ col \in DOMAIN out.loc
                /\ out.loc[col].sp = pushOf(blockOf(i))
                /\ out.loc[col].j = col - blockOf(i)[1]

\* C30: InteractionMatrix measures every mode: for every nModes and every
\* nMeasurements (None, smaller than, equal to or larger than nModes, or
\* forced to 1 for a GPU pyramid) no column of the returned matrix is left at
\* its initial zero value
C30_EveryModeMeasured ==
    (out.op = "InteractionMatrix" /\ out.raised = "none") =>
        \A col \in DOMAIN out.loc : out.loc[col] # ZeroColumn

====
